---- MODULE Spec2Model ----
(***************************************************************************)
(* Verification model of the Gaussian-log scanners of research_utilities   *)
(* (src/g16/orbital.py): the line cursor of a text-mode file object, the   *)
(* block extractors _get_sym and _get_orb_ene, the section reader          *)
(* _get_orb_sym, the public readers get_orb_sym and get_orb_sym_ene, and   *)
(* the degeneracy labeler _index_symmetry; and of the QM4D output readers  *)
(* (src/qm4d/orbital.py): f_electron_numbers, the eigenvalue scanners and  *)
(* the frontier-orbital functions built on them.                           *)
(*                                                                         *)
(* Energies are exact multiples of 5e-5 Hartree, written as integers in    *)
(* that unit, so the tolerance 1e-4 of _is_degenerate is 2 units.          *)
(* Offsets are byte offsets, as f.tell() gives them for an ASCII file.     *)
(***************************************************************************)
EXTENDS Integers, Sequences, FiniteSets, TLC

VARIABLES
    file,       \* the log: a sequence of lines (records lead, mark, toks, vals)
    nlw,        \* bytes of the line terminator: 1 for "\n", 2 for "\r\n"
    api,        \* the public function being run
    index_sym,  \* the index_sym argument of get_orb_sym_ene
    pos,        \* f.tell(): the cursor of the file object
    rpos,       \* the cursor at the moment of the latest f.readline()
    pc,         \* the position in the code
    top,        \* locals of get_orb_sym_ene / get_orb_sym
    osf,        \* locals of _get_orb_sym
    gsf,        \* locals of _get_sym
    oef,        \* locals of _get_orb_ene
    out,        \* what the public function did: running, returned, raised
    fop,        \* the last call on the file object in the latest step, if any
    lab,        \* a run of _index_symmetry on its own: input, loop state, pc
    qm,         \* arguments and locals of the QM4D readers (src/qm4d/orbital.py)
    inp         \* an Input object of src/qm4d/input_file.py and the last call on it

vars == <<file, nlw, api, index_sym, pos, rpos, pc, top, osf, gsf, oef, out, fop, lab, qm, inp>>
args == <<file, nlw, api, index_sym>>

----------------------------------------------------------------------------
(* Bounds of the model. *)

\* longest (symmetry, energy) sequence given to _index_symmetry on its own
MaxLen == 4
\* energies are drawn from 0..MaxE (units of 5e-5)
MaxE == 3
\* most payload tokens on one line of a generated log
MaxTok == 2
\* most blanks in front of a line of a generated log
MaxLead == 1
\* most lines in front of the first section of a generated log
MaxPre == 1

\* abs(orb1 - orb2) <= 1e-4, in units of 5e-5
Tol == 2

Syms == {"A", "B"}
Energies == 0..MaxE

Abs(x) == IF x < 0 THEN -x ELSE x

----------------------------------------------------------------------------
(* _is_degenerate and _index_symmetry. *)

\* _is_degenerate with a tolerance one unit too wide
IsDegenerateWide(orb1, orb2) == Abs(orb1 - orb2) <= Tol + 1

_is_degenerate(orb1, orb2) == Abs(orb1 - orb2) <= Tol

\* '{:d}{:s}'.format(idx, sym)
FormatLabel(idx, sym) == ToString(idx) \o sym

\* lines 24-26 with the counters starting at 1
IndexInitFromOne(syms_eigs) ==
    [l    |-> syms_eigs,
     syms |-> [k \in 1..Len(syms_eigs) |-> syms_eigs[k].symmetry],
     eigs |-> [k \in 1..Len(syms_eigs) |-> syms_eigs[k].energy],
     d    |-> [s \in {syms_eigs[k].symmetry : k \in 1..Len(syms_eigs)} |-> 1],
     i    |-> 0]

\* lines 24-26: the zipped copies, the counters and the loop index.
\* An entry of syms_eigs is a record [symmetry, energy].
IndexInit(syms_eigs) ==
    [l    |-> syms_eigs,
     syms |-> [k \in 1..Len(syms_eigs) |-> syms_eigs[k].symmetry],
     eigs |-> [k \in 1..Len(syms_eigs) |-> syms_eigs[k].energy],
     d    |-> [s \in {syms_eigs[k].symmetry : k \in 1..Len(syms_eigs)} |-> 0],
     i    |-> 0]

\* lines 28-41 with the counter bumped once more for the second entry of a pair
IndexBodyBump(st) ==
    LET sym == st.syms[st.i + 1]
        eig == st.eigs[st.i + 1]
        idx == st.d[sym] + 1
        pair == /\ st.i # Len(st.syms) - 1
                /\ sym = st.syms[st.i + 2]
                /\ _is_degenerate(eig, st.eigs[st.i + 2])
        l1 == IF pair
              THEN [st.l EXCEPT ![st.i + 2] =
                       [symmetry |-> FormatLabel(idx, sym), energy |-> st.eigs[st.i + 2]]]
              ELSE st.l
    IN  [st EXCEPT !.d[sym] = IF pair THEN idx + 1 ELSE idx,
                   !.l = [l1 EXCEPT ![st.i + 1] =
                             [symmetry |-> FormatLabel(idx, sym), energy |-> eig]],
                   !.i = st.i + (IF pair THEN 2 ELSE 1)]

\* lines 28-41 with the energy of the first entry of a pair written to both
IndexBodyOneEnergy(st) ==
    LET sym == st.syms[st.i + 1]
        eig == st.eigs[st.i + 1]
        idx == st.d[sym] + 1
        pair == /\ st.i # Len(st.syms) - 1
                /\ sym = st.syms[st.i + 2]
                /\ _is_degenerate(eig, st.eigs[st.i + 2])
        l1 == IF pair
              THEN [st.l EXCEPT ![st.i + 2] =
                       [symmetry |-> FormatLabel(idx, sym), energy |-> eig]]
              ELSE st.l
    IN  [st EXCEPT !.d[sym] = idx,
                   !.l = [l1 EXCEPT ![st.i + 1] =
                             [symmetry |-> FormatLabel(idx, sym), energy |-> eig]],
                   !.i = st.i + (IF pair THEN 2 ELSE 1)]

\* lines 28-41: one iteration of the while loop (st.i is the 0-based index i)
IndexBody(st) ==
    LET sym == st.syms[st.i + 1]
        eig == st.eigs[st.i + 1]
        idx == st.d[sym] + 1
        pair == /\ st.i # Len(st.syms) - 1
                /\ sym = st.syms[st.i + 2]
                /\ _is_degenerate(eig, st.eigs[st.i + 2])
        l1 == IF pair
              THEN [st.l EXCEPT ![st.i + 2] =
                       [symmetry |-> FormatLabel(idx, sym), energy |-> st.eigs[st.i + 2]]]
              ELSE st.l
    IN  [st EXCEPT !.d[sym] = idx,
                   !.l = [l1 EXCEPT ![st.i + 1] =
                             [symmetry |-> FormatLabel(idx, sym), energy |-> eig]],
                   !.i = st.i + (IF pair THEN 2 ELSE 1)]

RECURSIVE IndexRun(_)
IndexRun(st) == IF st.i < Len(st.syms) THEN IndexRun(IndexBody(st)) ELSE st.l

\* the whole function on a non-empty list (zip(*[]) cannot be unpacked)
_index_symmetry(syms_eigs) == IndexRun(IndexInit(syms_eigs))

----------------------------------------------------------------------------
(* The log file and the text-mode file object. *)

\* A line of the log: `lead` blanks, then the marker text `mark`, then the
\* payload: parenthesised symmetry tokens `toks` or eigenvalues `vals`.
\* A continuation line of a symmetry block has mark "" and tokens only.
Line(lead, mark, toks, vals) ==
    [lead |-> lead, mark |-> mark, toks |-> toks, vals |-> vals]

Text(lead, s) == Line(lead, s, <<>>, <<>>)

RECURSIVE TokChars(_)
TokChars(toks) ==
    IF toks = <<>> THEN 0 ELSE Len(Head(toks)) + 3 + TokChars(Tail(toks))

RECURSIVE Digits(_)
Digits(v) == IF v < 0 THEN 1 + Digits(-v)
             ELSE IF v < 10 THEN 1 ELSE 1 + Digits(v \div 10)

RECURSIVE ValChars(_)
ValChars(vals) ==
    IF vals = <<>> THEN 0 ELSE Digits(Head(vals)) + 1 + ValChars(Tail(vals))

\* len() of the line as readline() returns it from its first byte: the
\* terminator counts one character, "\r\n" being translated to "\n"
CharLen(L) == L.lead + Len(L.mark) + TokChars(L.toks) + ValChars(L.vals) + 1

\* The file as the file object sees it: every line with its byte offset
\* `at`, its length in characters `len` and its length in bytes `bytes`
\* (w bytes of terminator, one character)
RECURSIVE LayoutFrom(_, _, _)
LayoutFrom(f, w, at) ==
    IF f = <<>> THEN <<>>
    ELSE LET L == Head(f)
             n == CharLen(L)
         IN  <<[at |-> at, len |-> n, bytes |-> n + w - 1, lead |-> L.lead,
                mark |-> L.mark, toks |-> L.toks, vals |-> L.vals]>>
             \o LayoutFrom(Tail(f), w, at + n + w - 1)

Layout(f, w) == LayoutFrom(f, w, 0)

FileSize(f) == IF f = <<>> THEN 0 ELSE f[Len(f)].at + f[Len(f)].bytes

\* the line that holds byte offset p (p < FileSize)
LineAt(f, p) == CHOOSE i \in 1..Len(f) : f[i].at <= p /\ p < f[i].at + f[i].bytes

\* The value of a Python string read by readline(): its len() and what
\* strip() leaves of it, as marker and payload.  '' (end of file) has len 0.
EofLine == [len |-> 0, mark |-> "", toks |-> <<>>, vals |-> <<>>]

\* a read that starts inside the marker or the first token returns the tail
\* of the line, which matches none of the patterns
Garbled == "?"

\* f.readline() at cursor p: the line read and the cursor after it
ReadLine(f, p) ==
    IF p >= FileSize(f) THEN [line |-> EofLine, pos |-> p]
    ELSE LET L == f[LineAt(f, p)]
             o == p - L.at
         IN  IF o <= L.lead
             THEN [line |-> [len |-> L.len - o, mark |-> L.mark,
                             toks |-> L.toks, vals |-> L.vals],
                   pos |-> L.at + L.bytes]
             ELSE IF o < L.len - 1
             THEN [line |-> [len |-> L.len - o, mark |-> Garbled,
                             toks |-> <<>>, vals |-> <<>>],
                   pos |-> L.at + L.bytes]
             ELSE [line |-> [len |-> 1, mark |-> "", toks |-> <<>>, vals |-> <<>>],
                   pos |-> L.at + L.bytes]

\* line.strip().startswith(pat) for the marker texts the code looks for
StartsWith(line, pat) == line.mark = pat

\* line.startswith('(') after strip()
StartsWithParen(line) == line.mark = "" /\ line.toks # <<>>

\* `while line:` / `if not line`
Truthy(line) == line.len > 0

\* f.tell() - len(line), the offset the scanners seek to
RewindTarget(p, line) == p - line.len

AnchorSym == "Orbital symmetries:"
AlphaOrbitals == "Alpha Orbitals:"
Occupied == "Occupied"
Virtual == "Virtual"
a_occ_pattern == "Alpha  occ. eigenvalues --"
a_vir_pattern == "Alpha virt. eigenvalues --"
b_occ_pattern == "Beta  occ. eigenvalues --"
b_vir_pattern == "Beta virt. eigenvalues --"

----------------------------------------------------------------------------
(* The logs the scanners are run on. *)

Occ(ind, r) == Line(ind, Occupied, r, <<>>)
Virt(ind, r) == Line(ind, Virtual, r, <<>>)
Cont(ind, r) == Line(ind, "", r, <<>>)
Eig(ind, pat, v) == Line(ind, pat, <<>>, v)

StateLine(ind) == Text(ind, "The electronic state is 1-A1.")
BetaLine(ind) == Text(ind, "Beta Orbitals:")
LinkLine(ind) == Text(ind, "Entering Link 1")
TailLine(ind) == Text(ind, "Condensed to atoms (all electrons):")

\* rows of symmetry tokens and of eigenvalues on one line
SymRows == {r \in UNION {[1..n -> Syms] : n \in 1..MaxTok} : r[1] = "A"}

EigRows ==
    {v \in UNION {[1..n -> Energies] : n \in 1..MaxTok} :
        /\ v[1] = 0
        /\ \A k \in 1..(Len(v) - 1) : v[k + 1] - v[k] \in {1, MaxE}}

\* what may follow the anchor line: well-formed restricted and unrestricted
\* symmetry blocks, and malformed ones
SymBodies(ind, r) ==
    { <<Occ(ind, r)>>,
      <<Occ(ind, r), Cont(ind, r)>>,
      <<Text(ind, AlphaOrbitals), Occ(ind, r), BetaLine(ind), Occ(ind, r)>>,
      <<Text(ind, AlphaOrbitals), Occ(ind, r), BetaLine(ind), Occ(ind, r), Virt(ind, r)>>,
      <<Text(ind, AlphaOrbitals), StateLine(ind)>>,
      <<>> }

EigBodies(ind, v) ==
    { <<Eig(ind, a_occ_pattern, v)>>,
      <<Eig(ind, a_occ_pattern, v), Eig(ind, a_vir_pattern, v)>>,
      <<Eig(ind, a_occ_pattern, v), Eig(ind, b_occ_pattern, v)>>,
      <<Eig(ind, a_occ_pattern, v), Eig(ind, b_occ_pattern, v), Eig(ind, b_vir_pattern, v)>>,
      <<Eig(ind, a_vir_pattern, v)>>,
      <<>> }

RECURSIVE Rep(_, _)
Rep(x, n) == IF n = 0 THEN <<>> ELSE <<x>> \o Rep(x, n - 1)

\* logs with one section, every line behind `ind` blanks
SectionFiles(ind) ==
    { Rep(LinkLine(ind), npre) \o <<Text(ind, AnchorSym)>> \o sb \o gap \o eb \o post :
        npre \in 0..MaxPre,
        sb \in UNION {SymBodies(ind, r) : r \in SymRows},
        gap \in {<<>>, <<StateLine(ind)>>},
        eb \in UNION {EigBodies(ind, v) : v \in EigRows},
        post \in {<<>>, <<TailLine(ind)>>} }

\* logs without the anchor line
PlainFiles(ind) ==
    { Rep(LinkLine(ind), npre) \o sb \o eb :
        npre \in 0..MaxPre,
        sb \in {<<>>, <<Occ(ind, <<"A">>)>>},
        eb \in {<<>>, <<Eig(ind, a_occ_pattern, <<0>>)>>} }

GenFiles == UNION {SectionFiles(ind) \cup PlainFiles(ind) : ind \in 0..MaxLead}

\* the log of the end-to-end scenario: the eigenvalue lines directly after
\* the symmetry block; energies -1.5 -1.2 -0.9 0.3 0.5 in units of 5e-5
ScenarioFile ==
    << Text(0, AnchorSym),
       Occ(1, <<"A1", "A1", "B1">>),
       Virt(1, <<"A1", "B2">>),
       Eig(0, a_occ_pattern, <<-30000, -24000, -18000>>),
       Eig(0, a_vir_pattern, <<6000, 10000>>) >>

\* the same log with the line Gaussian prints between the two blocks
ScenarioFileGap ==
    SubSeq(ScenarioFile, 1, 3) \o <<StateLine(1)>> \o SubSeq(ScenarioFile, 4, 5)

\* a well-formed restricted section: anchor, symmetry block, the line in
\* between, eigenvalue block
Section(ind, r, v) ==
    <<Text(ind, AnchorSym), Occ(ind, r), StateLine(ind), Eig(ind, a_occ_pattern, v)>>

\* logs with two sections, as a geometry optimisation prints them: the first
\* one fixed, the second one of any well-formed restricted content
TwoSectionFiles(ind) ==
    { <<LinkLine(ind)>> \o Section(ind, <<"B">>, <<MaxE>>) \o mid \o Section(ind, r, v) \o post :
        mid \in {<<>>, <<LinkLine(ind)>>},
        r \in SymRows,
        v \in EigRows,
        post \in {<<>>, <<TailLine(ind)>>} }

MultiFiles == UNION {TwoSectionFiles(ind) : ind \in 0..MaxLead}

\* a log with two occupied eigenvalue lines directly after the symmetry
\* block: one symmetry, two energies
TwoLineFile ==
    << Text(0, AnchorSym),
       Occ(1, <<"A">>),
       Eig(0, a_occ_pattern, <<0>>),
       Eig(0, a_occ_pattern, <<1>>) >>

Files == GenFiles \cup MultiFiles \cup {ScenarioFile, ScenarioFileGap, TwoLineFile}

----------------------------------------------------------------------------
(* Values of the scanners. *)

\* None, and a value that is not None
NoneV == [none |-> TRUE, v |-> <<>>]
Some(x) == [none |-> FALSE, v |-> x]

\* s[0] in the place of s[-1]
First(s) == s[1]

Last(s) == s[Len(s)]

NoExc == [cls |-> "", message |-> ""]
Running == [st |-> "running", val |-> NoneV, exc |-> NoExc]
Returned(x) == [st |-> "returned", val |-> x, exc |-> NoExc]
Raised(cls, message) ==
    [st |-> "raised", val |-> NoneV, exc |-> [cls |-> cls, message |-> message]]

\* the attributes an exception object of class cls carries besides its message
ExcAttrs(cls) ==
    IF cls = "NoResultsFoundFromOutput" THEN {"output", "start", "message"}
    ELSE IF cls = "UnexpectedOutputFormat" THEN {"output", "message"}
    ELSE {}

\* list(zip(used_syms[i], used_eigs[i])) for two lists of one length
\* the symmetries zipped with the energies taken from the last one back
ZipBackwards(sy, ei) ==
    [j \in 1..Len(sy) |-> [symmetry |-> sy[j], energy |-> ei[Len(ei) + 1 - j]]]

Zip(sy, ei) == [j \in 1..Len(sy) |-> [symmetry |-> sy[j], energy |-> ei[j]]]

\* zip() of two lists of any lengths: the shorter one decides
ZipShort(sy, ei) ==
    [j \in 1..(IF Len(sy) < Len(ei) THEN Len(sy) ELSE Len(ei)) |->
        [symmetry |-> sy[j], energy |-> ei[j]]]

\* pd.DataFrame(i, columns='symmetry energy'.split()).reset_index()
Frame(ch) ==
    [j \in 1..Len(ch) |->
        [index |-> j - 1, symmetry |-> ch[j].symmetry, energy |-> ch[j].energy]]

MsgNoSym == "Cannot find orbital symmetries."
MsgNoEne == "Cannot find orbital energies."
MsgSpin == "Error: number of spin for orbital symmetries and energies does not match."
MsgCount(i) ==
    "Number of orbital symmetries and energies does not match for eigs" \o ToString(i) \o "."
MsgSymFormat == "Cannot find orbital symmetries due to format issue of log file."
MsgEneFormat == "Cannot find orbital energies due to format issue of log file."
MsgWrongPosSym == "Wrong position of file pointer to extract the orbital symmetries."
MsgImplSym == "Implementation Error: Wrong position of file pointer to extract the orbital symmetries."
MsgImplEne == "Implementation error: wrong position of file pointer to extract the orbital energies."
MsgUnpack == "not enough values to unpack (expected 2, got 0)"

\* lines 260-285 without the per-channel length test: zip() truncates
FinishTruncating(syms, eigs, idx) ==
    IF syms = <<>> THEN Raised("Exception", MsgNoSym)
    ELSE IF eigs = <<>> THEN Raised("Exception", MsgNoEne)
    ELSE LET used_syms == Last(syms)
             used_eigs == Last(eigs)
             rst == [i \in 1..Len(used_eigs) |-> ZipShort(used_syms[i], used_eigs[i])]
         IN  IF Len(used_eigs) # Len(used_syms) THEN Raised("Exception", MsgSpin)
             ELSE IF idx /\ \E i \in 1..Len(rst) : rst[i] = <<>>
             THEN Raised("ValueError", MsgUnpack)
             ELSE Returned(Some([i \in 1..Len(rst) |->
                     Frame(IF idx THEN _index_symmetry(rst[i]) ELSE rst[i])]))

\* lines 260-285 without the channel-count test: the channels both have
FinishCommonChannels(syms, eigs, idx) ==
    IF syms = <<>> THEN Raised("Exception", MsgNoSym)
    ELSE IF eigs = <<>> THEN Raised("Exception", MsgNoEne)
    ELSE LET used_syms == Last(syms)
             used_eigs == Last(eigs)
             n == IF Len(used_eigs) < Len(used_syms) THEN Len(used_eigs) ELSE Len(used_syms)
             bad == {i \in 1..n : Len(used_eigs[i]) # Len(used_syms[i])}
             rst == [i \in 1..n |-> Zip(used_syms[i], used_eigs[i])]
         IN  IF bad # {}
             THEN Raised("Exception", MsgCount((CHOOSE i \in bad : \A k \in bad : i <= k) - 1))
             ELSE IF idx /\ \E i \in 1..Len(rst) : rst[i] = <<>>
             THEN Raised("ValueError", MsgUnpack)
             ELSE Returned(Some([i \in 1..Len(rst) |->
                     Frame(IF idx THEN _index_symmetry(rst[i]) ELSE rst[i])]))

\* lines 260-285 without lines 277-279: the symmetries are never indexed
FinishRaw(syms, eigs, idx) ==
    IF syms = <<>> THEN Raised("Exception", MsgNoSym)
    ELSE IF eigs = <<>> THEN Raised("Exception", MsgNoEne)
    ELSE LET used_syms == Last(syms)
             used_eigs == Last(eigs)
             bad == {i \in 1..Len(used_eigs) : Len(used_eigs[i]) # Len(used_syms[i])}
             rst == [i \in 1..Len(used_eigs) |-> Zip(used_syms[i], used_eigs[i])]
         IN  IF Len(used_eigs) # Len(used_syms) THEN Raised("Exception", MsgSpin)
             ELSE IF bad # {}
             THEN Raised("Exception", MsgCount((CHOOSE i \in bad : \A k \in bad : i <= k) - 1))
             ELSE Returned(Some([i \in 1..Len(rst) |-> Frame(rst[i])]))

\* lines 260-285 of get_orb_sym_ene: the sections read (syms, eigs) to the
\* data frames returned or the exception raised
Finish(syms, eigs, idx) ==
    IF syms = <<>> THEN Raised("Exception", MsgNoSym)
    ELSE IF eigs = <<>> THEN Raised("Exception", MsgNoEne)
    ELSE LET used_syms == Last(syms)
             used_eigs == Last(eigs)
             bad == {i \in 1..Len(used_eigs) : Len(used_eigs[i]) # Len(used_syms[i])}
             rst == [i \in 1..Len(used_eigs) |-> Zip(used_syms[i], used_eigs[i])]
         IN  IF Len(used_eigs) # Len(used_syms) THEN Raised("Exception", MsgSpin)
             ELSE IF bad # {}
             THEN Raised("Exception", MsgCount((CHOOSE i \in bad : \A k \in bad : i <= k) - 1))
             ELSE IF idx /\ \E i \in 1..Len(rst) : rst[i] = <<>>
             THEN Raised("ValueError", MsgUnpack)
             ELSE Returned(Some([i \in 1..Len(rst) |->
                     Frame(IF idx THEN _index_symmetry(rst[i]) ELSE rst[i])]))

----------------------------------------------------------------------------
(* The scanners, one action per stretch of code between two calls on the   *)
(* file object.                                                            *)

top0 == [line |-> EofLine, syms |-> <<>>, eigs |-> <<>>,
         syms_t |-> NoneV, eigs_t |-> <<>>, rst |-> <<>>, it |-> -1]
osf0 == [line |-> EofLine, rst |-> <<>>, ret |-> NoneV]
gsf0 == [line |-> EofLine, pst |-> 0, syms |-> <<>>, site |-> ""]
oef0 == [line |-> EofLine, pst |-> 0, a_eig |-> <<>>, b_eig |-> <<>>, rst |-> <<>>,
         entry |-> 0]
lab0 == [pc |-> "idle", input |-> <<>>, st |-> IndexInit(<<>>), res |-> <<>>]

\* an exception of the QM4D readers: class, and the attributes qm4d_out,
\* start and message of QM4D_Output_No_Results_Found
NoQExc == [cls |-> "", qm4d_out |-> "", start |-> 0, message |-> ""]

\* the QM4D readers before a call: the arguments (path found or not,
\* based_on, name of the file object, cursor at the call of the reader)
\* and the locals
qm0 == [exists |-> TRUE, based_on |-> "", name |-> "", entry |-> 0,
        start |-> 0, line |-> [len |-> 0, mark |-> "", toks |-> <<>>, vals |-> <<>>, lead |-> 0],
        elec |-> <<>>, eig_lines |-> <<>>, t |-> <<>>, hdr |-> <<>>, brk |-> FALSE,
        visited_eigs |-> FALSE, eigs |-> <<>>, exc |-> NoQExc,
        selection |-> "", ret |-> [none |-> TRUE, v |-> <<>>],
        calls |-> 0, prev |-> <<>>]

\* no Input object
inp0 == [names |-> <<>>, blocks |-> <<>>, before |-> [names |-> <<>>, blocks |-> <<>>],
         call |-> [name |-> ""], n |-> 0, exc |-> "", calls |-> 0]

Apis == {"get_orb_sym_ene", "get_orb_sym", "get_orb_ene_log"}

EntryOf(a) == IF a = "get_orb_sym_ene" THEN "get_orb_sym_ene_open"
              ELSE IF a = "get_orb_sym" THEN "get_orb_sym_open"
              ELSE "get_orb_ene_log_open"

\* where _get_orb_sym returns to
AfterOrbSym == IF api = "get_orb_sym_ene" THEN "get_orb_sym_ene_after_sym"
               ELSE "get_orb_sym_ret"

\* where _get_orb_ene returns to
AfterOrbEne == IF api = "get_orb_sym_ene" THEN "get_orb_sym_ene_after_ene"
               ELSE "get_orb_ene_log_ret"

Init ==
    /\ nlw \in {1, 2}
    /\ file \in {Layout(f, nlw) : f \in Files}
    /\ api \in Apis
    /\ index_sym \in (IF api = "get_orb_sym_ene" THEN BOOLEAN ELSE {TRUE})
    /\ pos = 0
    /\ rpos = 0
    /\ fop = "open"
    /\ pc = EntryOf(api)
    /\ top = top0
    /\ osf = osf0
    /\ gsf = gsf0
    /\ oef = oef0
    /\ out = Running
    /\ lab = lab0
    /\ qm = qm0
    /\ inp = inp0

\* raise: the exception leaves every frame, the with-block closes the file
Raise(cls, message) ==
    /\ out' = Raised(cls, message)
    /\ pc' = "done"

\* ---- get_orb_sym_ene ----

\* lines 231-236
get_orb_sym_ene_open ==
    /\ pc = "get_orb_sym_ene_open"
    /\ LET R == ReadLine(file, pos)
       IN  /\ top' = [top EXCEPT !.line = R.line]
           /\ pos' = R.pos
    /\ rpos' = pos
    /\ fop' = "read"
    /\ pc' = "get_orb_sym_ene_loop"
    /\ UNCHANGED <<args, qm, inp, osf, gsf, oef, out, lab>>

\* lines 237-243 and 258: the loop test, the anchor test with the rewind
\* and the call of _get_orb_sym, or the next line
get_orb_sym_ene_loop ==
    /\ pc = "get_orb_sym_ene_loop"
    /\ IF ~Truthy(top.line)
       THEN /\ pc' = "get_orb_sym_ene_post"
            /\ fop' = "none"
            /\ UNCHANGED <<pos, rpos, top, osf>>
       ELSE IF StartsWith(top.line, AnchorSym)
       THEN /\ pos' = RewindTarget(pos, top.line)
            /\ fop' = "seek"
            /\ osf' = osf0
            /\ pc' = "_get_orb_sym_entry"
            /\ top' = [top EXCEPT !.it = pos]
            /\ UNCHANGED rpos
       ELSE /\ LET R == ReadLine(file, pos)
               IN  /\ top' = [top EXCEPT !.line = R.line, !.it = pos]
                   /\ pos' = R.pos
            /\ rpos' = pos
            /\ fop' = "read"
            /\ pc' = "get_orb_sym_ene_loop"
            /\ UNCHANGED osf
    /\ UNCHANGED <<args, qm, inp, gsf, oef, out, lab>>

\* lines 243-251 without the f.readline() of line 250: _get_orb_ene is
\* called on the line right after the symmetry block
get_orb_sym_ene_after_sym_noskip ==
    /\ pc = "get_orb_sym_ene_after_sym"
    /\ top' = [top EXCEPT !.syms_t = osf.ret]
    /\ IF osf.ret.none \/ osf.ret.v = <<>>
       THEN /\ Raise("Exception", MsgSymFormat)
            /\ fop' = "none"
            /\ UNCHANGED <<pos, rpos, oef>>
       ELSE /\ fop' = "none"
            /\ oef' = oef0
            /\ pc' = "_get_orb_ene_entry"
            /\ UNCHANGED <<pos, rpos, out>>
    /\ UNCHANGED <<args, qm, inp, osf, gsf, lab>>

\* lines 243-251: the value of _get_orb_sym, the line skipped between the
\* two blocks, the call of _get_orb_ene
get_orb_sym_ene_after_sym ==
    /\ pc = "get_orb_sym_ene_after_sym"
    /\ top' = [top EXCEPT !.syms_t = osf.ret]
    /\ IF osf.ret.none \/ osf.ret.v = <<>>
       THEN /\ Raise("Exception", MsgSymFormat)
            /\ fop' = "none"
            /\ UNCHANGED <<pos, rpos, oef>>
       ELSE /\ pos' = ReadLine(file, pos).pos
            /\ rpos' = pos
            /\ fop' = "read"
            /\ oef' = oef0
            /\ pc' = "_get_orb_ene_entry"
            /\ out' = out
    /\ UNCHANGED <<args, qm, inp, osf, gsf, lab>>

\* lines 251-258: the value of _get_orb_ene, both appended, the next line
get_orb_sym_ene_after_ene ==
    /\ pc = "get_orb_sym_ene_after_ene"
    /\ IF oef.rst = <<>>
       THEN /\ Raise("Exception", MsgEneFormat)
            /\ top' = [top EXCEPT !.eigs_t = oef.rst]
            /\ fop' = "none"
            /\ UNCHANGED <<pos, rpos>>
       ELSE /\ LET R == ReadLine(file, pos)
               IN  /\ top' = [top EXCEPT !.eigs_t = oef.rst,
                                         !.syms = Append(top.syms, top.syms_t.v),
                                         !.eigs = Append(top.eigs, oef.rst),
                                         !.line = R.line]
                   /\ pos' = R.pos
            /\ rpos' = pos
            /\ fop' = "read"
            /\ pc' = "get_orb_sym_ene_loop"
            /\ out' = out
    /\ UNCHANGED <<args, qm, inp, osf, gsf, oef, lab>>

\* lines 260-285
get_orb_sym_ene_post ==
    /\ pc = "get_orb_sym_ene_post"
    /\ out' = Finish(top.syms, top.eigs, index_sym)
    /\ pc' = "done"
    /\ fop' = "none"
    /\ UNCHANGED <<args, qm, inp, pos, rpos, top, osf, gsf, oef, lab>>

\* ---- _get_orb_sym ----

\* lines 98-102
_get_orb_sym_entry ==
    /\ pc = "_get_orb_sym_entry"
    /\ LET R == ReadLine(file, pos)
       IN  /\ osf' = [osf EXCEPT !.line = R.line]
           /\ pos' = R.pos
           /\ IF ~StartsWith(R.line, AnchorSym)
              THEN Raise("Exception", MsgWrongPosSym)
              ELSE pc' = "_get_orb_sym_second" /\ out' = out
    /\ rpos' = pos
    /\ fop' = "read"
    /\ UNCHANGED <<args, qm, inp, top, gsf, oef, lab>>

\* lines 103-105, 108-109 and the fall off the end: the line after the
\* anchor decides between one block, two blocks and None
_get_orb_sym_second ==
    /\ pc = "_get_orb_sym_second"
    /\ LET R == ReadLine(file, pos)
       IN  /\ rpos' = pos
           /\ IF StartsWith(R.line, Occupied)
              THEN /\ pos' = RewindTarget(R.pos, R.line)
                   /\ fop' = "seek"
                   /\ osf' = [osf EXCEPT !.line = R.line]
                   /\ gsf' = [gsf0 EXCEPT !.site = "_get_orb_sym_ret1"]
                   /\ pc' = "_get_sym_entry"
              ELSE IF StartsWith(R.line, AlphaOrbitals)
              THEN /\ pos' = R.pos
                   /\ fop' = "read"
                   /\ osf' = [osf EXCEPT !.line = R.line]
                   /\ gsf' = [gsf0 EXCEPT !.site = "_get_orb_sym_ret2"]
                   /\ pc' = "_get_sym_entry"
              ELSE /\ pos' = R.pos
                   /\ fop' = "read"
                   /\ osf' = [osf EXCEPT !.line = R.line, !.ret = NoneV]
                   /\ gsf' = gsf
                   /\ pc' = AfterOrbSym
    /\ UNCHANGED <<args, qm, inp, top, oef, out, lab>>

\* lines 106-107
_get_orb_sym_ret1 ==
    /\ pc = "_get_orb_sym_ret1"
    /\ osf' = [osf EXCEPT !.rst = <<gsf.syms>>, !.ret = Some(<<gsf.syms>>)]
    /\ pc' = AfterOrbSym
    /\ fop' = "none"
    /\ UNCHANGED <<args, qm, inp, pos, rpos, top, gsf, oef, out, lab>>

\* lines 109-111: the first block, the line skipped, the second call
_get_orb_sym_ret2 ==
    /\ pc = "_get_orb_sym_ret2"
    /\ osf' = [osf EXCEPT !.rst = <<gsf.syms>>]
    /\ pos' = ReadLine(file, pos).pos
    /\ rpos' = pos
    /\ fop' = "read"
    /\ gsf' = [gsf0 EXCEPT !.site = "_get_orb_sym_ret3"]
    /\ pc' = "_get_sym_entry"
    /\ UNCHANGED <<args, qm, inp, top, oef, out, lab>>

\* lines 111-112 with the second block put in front of the first
_get_orb_sym_ret3_swapped ==
    /\ pc = "_get_orb_sym_ret3"
    /\ osf' = [osf EXCEPT !.rst = <<gsf.syms>> \o osf.rst,
                          !.ret = Some(<<gsf.syms>> \o osf.rst)]
    /\ pc' = AfterOrbSym
    /\ fop' = "none"
    /\ UNCHANGED <<args, qm, inp, pos, rpos, top, gsf, oef, out, lab>>

\* lines 111-112
_get_orb_sym_ret3 ==
    /\ pc = "_get_orb_sym_ret3"
    /\ osf' = [osf EXCEPT !.rst = Append(osf.rst, gsf.syms),
                          !.ret = Some(Append(osf.rst, gsf.syms))]
    /\ pc' = AfterOrbSym
    /\ fop' = "none"
    /\ UNCHANGED <<args, qm, inp, pos, rpos, top, gsf, oef, out, lab>>

\* ---- _get_sym ----

\* lines 58-64
_get_sym_entry ==
    /\ pc = "_get_sym_entry"
    /\ LET R == ReadLine(file, pos)
       IN  /\ gsf' = [gsf EXCEPT !.line = R.line, !.syms = <<>>]
           /\ pos' = R.pos
           /\ IF ~StartsWith(R.line, Occupied)
              THEN Raise("Exception", MsgImplSym)
              ELSE pc' = "_get_sym_loop" /\ out' = out
    /\ rpos' = pos
    /\ fop' = "read"
    /\ UNCHANGED <<args, qm, inp, top, osf, oef, lab>>

\* lines 66-85: one pass of the while loop, or the return
_get_sym_loop ==
    /\ pc = "_get_sym_loop"
    /\ IF ~Truthy(gsf.line)
       THEN /\ pc' = gsf.site
            /\ fop' = "none"
            /\ UNCHANGED <<pos, rpos, gsf>>
       ELSE IF \/ StartsWith(gsf.line, Occupied)
               \/ StartsWith(gsf.line, Virtual)
               \/ StartsWithParen(gsf.line)
       THEN /\ LET R == ReadLine(file, pos)
               IN  /\ gsf' = [gsf EXCEPT !.pst = RewindTarget(pos, gsf.line),
                                         !.syms = gsf.syms \o gsf.line.toks,
                                         !.line = R.line]
                   /\ pos' = R.pos
            /\ rpos' = pos
            /\ fop' = "read"
            /\ pc' = "_get_sym_loop"
       ELSE /\ gsf' = [gsf EXCEPT !.pst = RewindTarget(pos, gsf.line)]
            /\ pos' = RewindTarget(pos, gsf.line)
            /\ fop' = "seek"
            /\ pc' = gsf.site
            /\ rpos' = rpos
    /\ UNCHANGED <<args, qm, inp, top, osf, oef, out, lab>>

\* ---- _get_orb_ene ----

\* lines 124-137
_get_orb_ene_entry ==
    /\ pc = "_get_orb_ene_entry"
    /\ LET R == ReadLine(file, pos)
       IN  /\ oef' = [oef EXCEPT !.line = R.line, !.a_eig = <<>>, !.b_eig = <<>>,
                                 !.entry = pos]
           /\ pos' = R.pos
           /\ IF ~StartsWith(R.line, a_occ_pattern)
              THEN Raise("Exception", MsgImplEne)
              ELSE pc' = "_get_orb_ene_loop" /\ out' = out
    /\ rpos' = pos
    /\ fop' = "read"
    /\ UNCHANGED <<args, qm, inp, top, osf, gsf, lab>>

\* rst = [a_eig, b_eig] whatever b_eig holds
EneChannelsBoth(a_eig, b_eig) == <<a_eig, b_eig>>

\* rst = [a_eig]; if b_eig: rst.append(b_eig)
EneChannels(a_eig, b_eig) == IF b_eig # <<>> THEN <<a_eig, b_eig>> ELSE <<a_eig>>

\* lines 138-165: one pass of the while loop, or the return
_get_orb_ene_loop ==
    /\ pc = "_get_orb_ene_loop"
    /\ IF ~Truthy(oef.line)
       THEN /\ oef' = [oef EXCEPT !.rst = EneChannels(oef.a_eig, oef.b_eig)]
            /\ pc' = AfterOrbEne
            /\ fop' = "none"
            /\ UNCHANGED <<pos, rpos>>
       ELSE IF \/ StartsWith(oef.line, a_occ_pattern)
               \/ StartsWith(oef.line, a_vir_pattern)
               \/ StartsWith(oef.line, b_occ_pattern)
               \/ StartsWith(oef.line, b_vir_pattern)
       THEN /\ LET R == ReadLine(file, pos)
                   alpha == \/ StartsWith(oef.line, a_occ_pattern)
                            \/ StartsWith(oef.line, a_vir_pattern)
               IN  /\ oef' = [oef EXCEPT
                                !.pst = RewindTarget(pos, oef.line),
                                !.a_eig = IF alpha THEN oef.a_eig \o oef.line.vals ELSE oef.a_eig,
                                !.b_eig = IF alpha THEN oef.b_eig ELSE oef.b_eig \o oef.line.vals,
                                !.line = R.line]
                   /\ pos' = R.pos
            /\ rpos' = pos
            /\ fop' = "read"
            /\ pc' = "_get_orb_ene_loop"
       ELSE /\ oef' = [oef EXCEPT !.pst = RewindTarget(pos, oef.line),
                                  !.rst = EneChannels(oef.a_eig, oef.b_eig)]
            /\ pos' = RewindTarget(pos, oef.line)
            /\ fop' = "seek"
            /\ pc' = AfterOrbEne
            /\ rpos' = rpos
    /\ UNCHANGED <<args, qm, inp, top, osf, gsf, out, lab>>

\* ---- get_orb_sym ----

\* lines 181-183
get_orb_sym_open ==
    /\ pc = "get_orb_sym_open"
    /\ LET R == ReadLine(file, pos)
       IN  /\ top' = [top EXCEPT !.line = R.line]
           /\ pos' = R.pos
    /\ rpos' = pos
    /\ fop' = "read"
    /\ pc' = "get_orb_sym_loop"
    /\ UNCHANGED <<args, qm, inp, osf, gsf, oef, out, lab>>

\* lines 184-185 and 191: the loop test, then the next line or the return
get_orb_sym_loop ==
    /\ pc = "get_orb_sym_loop"
    /\ IF ~Truthy(top.line)
       THEN /\ out' = Returned(IF top.rst # <<>> THEN Last(top.rst) ELSE NoneV)
            /\ pc' = "done"
            /\ fop' = "none"
            /\ UNCHANGED <<pos, rpos, top>>
       ELSE /\ LET R == ReadLine(file, pos)
               IN  /\ top' = [top EXCEPT !.line = R.line, !.it = pos]
                   /\ pos' = R.pos
            /\ rpos' = pos
            /\ fop' = "read"
            /\ pc' = "get_orb_sym_test"
            /\ out' = out
    /\ UNCHANGED <<args, qm, inp, osf, gsf, oef, lab>>

\* lines 186-188 without the call of line 189: the rewind only
get_orb_sym_test_rewind_only ==
    /\ pc = "get_orb_sym_test"
    /\ IF StartsWith(top.line, AnchorSym)
       THEN /\ pos' = RewindTarget(pos, top.line)
            /\ fop' = "seek"
            /\ pc' = "get_orb_sym_loop"
            /\ osf' = osf
       ELSE /\ pc' = "get_orb_sym_loop"
            /\ fop' = "none"
            /\ UNCHANGED <<pos, osf>>
    /\ UNCHANGED <<args, qm, inp, rpos, top, gsf, oef, out, lab>>

\* lines 186-189: the anchor test with the rewind and the call
get_orb_sym_test ==
    /\ pc = "get_orb_sym_test"
    /\ IF StartsWith(top.line, AnchorSym)
       THEN /\ pos' = RewindTarget(pos, top.line)
            /\ fop' = "seek"
            /\ osf' = osf0
            /\ pc' = "_get_orb_sym_entry"
       ELSE /\ pc' = "get_orb_sym_loop"
            /\ fop' = "none"
            /\ UNCHANGED <<pos, osf>>
    /\ UNCHANGED <<args, qm, inp, rpos, top, gsf, oef, out, lab>>

\* lines 189-190
get_orb_sym_ret ==
    /\ pc = "get_orb_sym_ret"
    /\ top' = [top EXCEPT !.syms_t = osf.ret, !.rst = Append(top.rst, osf.ret)]
    /\ pc' = "get_orb_sym_loop"
    /\ fop' = "none"
    /\ UNCHANGED <<args, qm, inp, pos, rpos, osf, gsf, oef, out, lab>>

\* ---- get_orb_ene_log ----

\* lines 203-205
get_orb_ene_log_open ==
    /\ pc = "get_orb_ene_log_open"
    /\ LET R == ReadLine(file, pos)
       IN  /\ top' = [top EXCEPT !.line = R.line]
           /\ pos' = R.pos
    /\ rpos' = pos
    /\ fop' = "read"
    /\ pc' = "get_orb_ene_log_loop"
    /\ UNCHANGED <<args, qm, inp, osf, gsf, oef, out, lab>>

\* lines 206-207 and 214: the loop test, then the next line or the return
get_orb_ene_log_loop ==
    /\ pc = "get_orb_ene_log_loop"
    /\ IF ~Truthy(top.line)
       THEN /\ out' = Returned(IF top.rst # <<>> THEN Last(top.rst) ELSE NoneV)
            /\ pc' = "done"
            /\ fop' = "none"
            /\ UNCHANGED <<pos, rpos, top>>
       ELSE /\ LET R == ReadLine(file, pos)
               IN  /\ top' = [top EXCEPT !.line = R.line, !.it = pos]
                   /\ pos' = R.pos
            /\ rpos' = pos
            /\ fop' = "read"
            /\ pc' = "get_orb_ene_log_test"
            /\ out' = out
    /\ UNCHANGED <<args, qm, inp, osf, gsf, oef, lab>>

\* lines 208-211: the anchor test with the rewind and the call
get_orb_ene_log_test ==
    /\ pc = "get_orb_ene_log_test"
    /\ IF StartsWith(top.line, a_occ_pattern)
       THEN /\ pos' = RewindTarget(pos, top.line)
            /\ fop' = "seek"
            /\ oef' = oef0
            /\ pc' = "_get_orb_ene_entry"
       ELSE /\ pc' = "get_orb_ene_log_loop"
            /\ fop' = "none"
            /\ UNCHANGED <<pos, oef>>
    /\ UNCHANGED <<args, qm, inp, rpos, top, osf, gsf, out, lab>>

\* lines 211-213: the list _get_orb_ene returns is never empty
get_orb_ene_log_ret ==
    /\ pc = "get_orb_ene_log_ret"
    /\ top' = [top EXCEPT !.eigs_t = oef.rst,
                          !.rst = IF oef.rst # <<>> THEN Append(top.rst, Some(oef.rst))
                                  ELSE top.rst]
    /\ pc' = "get_orb_ene_log_loop"
    /\ fop' = "none"
    /\ UNCHANGED <<args, qm, inp, pos, rpos, osf, gsf, oef, out, lab>>

Next ==
    \/ get_orb_sym_ene_open
    \/ get_orb_sym_ene_loop
    \/ get_orb_sym_ene_after_sym
    \/ get_orb_sym_ene_after_ene
    \/ get_orb_sym_ene_post
    \/ _get_orb_sym_entry
    \/ _get_orb_sym_second
    \/ _get_orb_sym_ret1
    \/ _get_orb_sym_ret2
    \/ _get_orb_sym_ret3
    \/ _get_sym_entry
    \/ _get_sym_loop
    \/ _get_orb_ene_entry
    \/ _get_orb_ene_loop
    \/ get_orb_sym_open
    \/ get_orb_sym_loop
    \/ get_orb_sym_test
    \/ get_orb_sym_ret
    \/ get_orb_ene_log_open
    \/ get_orb_ene_log_loop
    \/ get_orb_ene_log_test
    \/ get_orb_ene_log_ret

Spec == Init /\ [][Next]_vars

\* the logs the termination of the readers is checked on: those of Files
\* that have the most lines before the anchor and no indentation or the
\* widest one
ScanFiles ==
    {ScenarioFile, ScenarioFileGap, TwoLineFile}
    \cup UNION {TwoSectionFiles(ind) \cup PlainFiles(ind) : ind \in {0, MaxLead}}
    \cup UNION {{f \in SectionFiles(ind) : Len(f) > MaxPre /\ f[MaxPre + 1].mark = AnchorSym} :
                 ind \in {0, MaxLead}}

\* the calls the termination of the readers is checked on: the symmetries
\* are not labelled, as _index_symmetry runs after the scan loop has ended
InitScan ==
    /\ nlw \in {1, 2}
    /\ file \in {Layout(f, nlw) : f \in ScanFiles}
    /\ api \in Apis
    /\ index_sym = (api # "get_orb_sym_ene")
    /\ pos = 0
    /\ rpos = 0
    /\ fop = "open"
    /\ pc = EntryOf(api)
    /\ top = top0
    /\ osf = osf0
    /\ gsf = gsf0
    /\ oef = oef0
    /\ out = Running
    /\ lab = lab0
    /\ qm = qm0
    /\ inp = inp0

\* a call runs on: no step of it waits for anything
SpecScan == InitScan /\ [][Next]_vars /\ WF_vars(Next)

----------------------------------------------------------------------------
(* _index_symmetry run on its own, one action per pass of its while loop.  *)

Entries == [symmetry : Syms, energy : Energies]

\* [(A,1.0),(A,1.00005),(B,2.0)] and [(A,1.0),(A,1.0002)] in units of 5e-5
MergeExample ==
    << [symmetry |-> "A", energy |-> 20000],
       [symmetry |-> "A", energy |-> 20001],
       [symmetry |-> "B", energy |-> 40000] >>

NonMergeExample ==
    << [symmetry |-> "A", energy |-> 20000],
       [symmetry |-> "A", energy |-> 20004] >>

LabInputs ==
    UNION {[1..n -> Entries] : n \in 1..MaxLen} \cup {MergeExample, NonMergeExample}

InitLabel ==
    /\ file = <<>>
    /\ nlw = 1
    /\ api = "_index_symmetry"
    /\ index_sym = TRUE
    /\ pos = 0
    /\ rpos = 0
    /\ fop = "none"
    /\ pc = "idle"
    /\ top = top0
    /\ osf = osf0
    /\ gsf = gsf0
    /\ oef = oef0
    /\ out = Running
    /\ qm = qm0
    /\ inp = inp0
    /\ \E x \in LabInputs :
          lab = [pc |-> "loop", input |-> x, st |-> IndexInit(x), res |-> <<>>]

\* lines 27-41
_index_symmetry_loop ==
    /\ lab.pc = "loop"
    /\ lab.st.i < Len(lab.st.syms)
    /\ lab' = [lab EXCEPT !.st = IndexBody(lab.st)]
    /\ UNCHANGED <<args, qm, inp, pos, rpos, fop, pc, top, osf, gsf, oef, out>>

\* lines 27 and 42
_index_symmetry_return ==
    /\ lab.pc = "loop"
    /\ ~(lab.st.i < Len(lab.st.syms))
    /\ lab' = [lab EXCEPT !.pc = "done", !.res = lab.st.l]
    /\ UNCHANGED <<args, qm, inp, pos, rpos, fop, pc, top, osf, gsf, oef, out>>

NextLabel == _index_symmetry_loop \/ _index_symmetry_return

SpecLabel == InitLabel /\ [][NextLabel]_vars

----------------------------------------------------------------------------
(* Properties. *)

Labels(res) == [k \in 1..Len(res) |-> res[k].symmetry]
EnergiesOf(res) == [k \in 1..Len(res) |-> res[k].energy]

EneDone == api = "get_orb_sym_ene" /\ pc = "done"

\* get_orb_sym_ene left its scan loop at the end of the file with at least
\* one section read, and went on to lines 260-285
EneFinished == EneDone /\ ~Truthy(top.line) /\ top.syms # <<>>

UsedSyms == Last(top.syms)
UsedEigs == Last(top.eigs)

Min(a, b) == IF a < b THEN a ELSE b

\* the records of the end-to-end scenario: labels in the symmetry column
ScenarioRecords ==
    << [index |-> 0, symmetry |-> "1A1", energy |-> -30000],
       [index |-> 1, symmetry |-> "2A1", energy |-> -24000],
       [index |-> 2, symmetry |-> "1B1", energy |-> -18000],
       [index |-> 3, symmetry |-> "3A1", energy |-> 6000],
       [index |-> 4, symmetry |-> "1B2", energy |-> 10000] >>

ScenarioSyms == <<"A1", "A1", "B1", "A1", "B2">>

\* C1 as stated: on the log whose eigenvalue lines come directly after the
\* symmetry block, get_orb_sym_ene returns exactly one channel of 5 records
\* with symmetries A1 A1 B1 A1 B2, energies -1.5 -1.2 -0.9 0.3 0.5 and
\* labels 1A1 2A1 1B1 3A1 1B2.
C1_DirectlyAfter ==
    (EneDone /\ index_sym /\ nlw = 1 /\ file = Layout(ScenarioFile, 1)) =>
        /\ out.st = "returned"
        /\ out.val = Some(<<ScenarioRecords>>)
        /\ top.syms = << <<ScenarioSyms>> >>

\* C1 amended: on the log with "\n" terminators that has exactly one line
\* between the symmetry block and the eigenvalue lines, get_orb_sym_ene with
\* index_sym=True returns exactly one channel of 5 records with energies
\* -1.5 -1.2 -0.9 0.3 0.5 whose symmetry column holds the labels
\* 1A1 2A1 1B1 3A1 1B2, made from the extracted symmetries A1 A1 B1 A1 B2.
C1_OneLineBetween ==
    (EneDone /\ index_sym /\ nlw = 1 /\ file = Layout(ScenarioFileGap, 1)) =>
        /\ out.st = "returned"
        /\ out.val = Some(<<ScenarioRecords>>)
        /\ top.syms = << <<ScenarioSyms>> >>

C1_Witness ==
    /\ EneDone /\ index_sym /\ nlw = 1 /\ file = Layout(ScenarioFileGap, 1)
    /\ out.st = "returned"
    /\ Len(out.val.v) = 1
    /\ Len(out.val.v[1]) = 5

\* the single left-to-right pass of the specification: entry i takes the
\* label of entry i-1 when both have one symmetry and energies within the
\* tolerance, and a fresh counter value of its symmetry otherwise
RECURSIVE RefPass(_, _, _, _)
RefPass(seq, i, cnt, labels) ==
    IF i > Len(seq) THEN labels
    ELSE IF /\ i > 1
            /\ seq[i].symmetry = seq[i - 1].symmetry
            /\ Abs(seq[i].energy - seq[i - 1].energy) <= Tol
         THEN RefPass(seq, i + 1, cnt, Append(labels, labels[i - 1]))
         ELSE LET sym == seq[i].symmetry
                  c == cnt[sym] + 1
              IN  RefPass(seq, i + 1, [cnt EXCEPT ![sym] = c],
                          Append(labels, FormatLabel(c, sym)))

RefLabels(seq) ==
    RefPass(seq, 1, [s \in {seq[k].symmetry : k \in 1..Len(seq)} |-> 0], <<>>)

\* C2: for every channel sequence the labels _index_symmetry assigns are
\* those of the reference single left-to-right pass, for runs of any length.
C2_ReferencePass ==
    lab.pc = "done" => Labels(lab.res) = RefLabels(lab.input)

\* C3: for [(A,e1),(A,e2),(B,e3)] with |e1-e2| below the tolerance the labels
\* are 1A 1A 1B and the counter of A stays at 1.
C3_MergeLaw ==
    ( /\ lab.pc = "done"
      /\ Len(lab.input) = 3
      /\ lab.input[1].symmetry = lab.input[2].symmetry
      /\ lab.input[3].symmetry # lab.input[1].symmetry
      /\ Abs(lab.input[1].energy - lab.input[2].energy) < Tol ) =>
        /\ Labels(lab.res) = << FormatLabel(1, lab.input[1].symmetry),
                                FormatLabel(1, lab.input[1].symmetry),
                                FormatLabel(1, lab.input[3].symmetry) >>
        /\ lab.st.d[lab.input[1].symmetry] = 1

C3_Witness ==
    /\ lab.pc = "done"
    /\ lab.input = MergeExample
    /\ Labels(lab.res) = <<"1A", "1A", "1B">>

\* C4: two adjacent entries of one symmetry whose energies differ by more
\* than the tolerance are not merged: they take consecutive counters.
C4_NonMerge ==
    lab.pc = "done" =>
        \A k \in 1..(Len(lab.input) - 1) :
            ( /\ lab.input[k].symmetry = lab.input[k + 1].symmetry
              /\ Abs(lab.input[k].energy - lab.input[k + 1].energy) > Tol ) =>
                \E n \in 1..Len(lab.input) :
                    /\ lab.res[k].symmetry = FormatLabel(n, lab.input[k].symmetry)
                    /\ lab.res[k + 1].symmetry = FormatLabel(n + 1, lab.input[k].symmetry)

C4_Witness ==
    /\ lab.pc = "done"
    /\ lab.input = NonMergeExample
    /\ Labels(lab.res) = <<"1A", "2A">>

\* C5: when for some channel the number of symmetry labels extracted differs
\* from the number of energies extracted, get_orb_sym_ene raises and returns
\* no records; every channel it returns has as many records as the symmetry
\* and the energy sub-stream of that channel.
C5_ChannelShape ==
    EneFinished =>
        /\ (\E i \in 1..Min(Len(UsedSyms), Len(UsedEigs)) :
                Len(UsedSyms[i]) # Len(UsedEigs[i]))
            => (out.st = "raised" /\ out.val = NoneV)
        /\ out.st = "returned" =>
            /\ Len(out.val.v) = Len(UsedSyms)
            /\ Len(out.val.v) = Len(UsedEigs)
            /\ \A c \in 1..Len(out.val.v) :
                  /\ Len(out.val.v[c]) = Len(UsedSyms[c])
                  /\ Len(out.val.v[c]) = Len(UsedEigs[c])

C5_Witness ==
    /\ EneFinished
    /\ Len(UsedSyms) = 2
    /\ Len(UsedEigs) = 2
    /\ Len(UsedSyms[1]) = Len(UsedEigs[1])
    /\ Len(UsedSyms[2]) # Len(UsedEigs[2])
    /\ out.st = "raised"
    /\ out.exc.message = MsgCount(1)

\* C6: when the symmetry extraction and the energy extraction found
\* different numbers of channels, get_orb_sym_ene raises the structural
\* error and returns no records.
C6_ChannelCount ==
    (EneFinished /\ Len(UsedSyms) # Len(UsedEigs)) =>
        /\ out.st = "raised"
        /\ out.val = NoneV
        /\ out.exc.message = MsgSpin

C6_Witness ==
    /\ EneFinished
    /\ Len(UsedSyms) = 2
    /\ Len(UsedEigs) = 1
    /\ Len(UsedSyms[1]) = Len(UsedEigs[1])
    /\ out.st = "raised"

\* a block extractor has just returned because it met a line that is not
\* part of its block
SymBlockDone ==
    fop = "seek" /\ pc \in {"_get_orb_sym_ret1", "_get_orb_sym_ret2", "_get_orb_sym_ret3"}
EneBlockDone == fop = "seek" /\ pc \in {"get_orb_sym_ene_after_ene", "get_orb_ene_log_ret"}

\* C7: when _get_sym or _get_orb_ene ends at a line that is not part of the
\* block, the cursor is at the start of that line and the next readline
\* returns exactly that line.
C7_StopBeforeNext ==
    /\ SymBlockDone => (pos = rpos /\ ReadLine(file, pos).line = gsf.line)
    /\ EneBlockDone => (pos = rpos /\ ReadLine(file, pos).line = oef.line)

\* the line the scanner that has just rewound holds
HeldLine ==
    IF pc \in {"_get_orb_sym_entry", "_get_orb_ene_entry"} THEN top.line
    ELSE IF pc = "_get_sym_entry" THEN osf.line
    ELSE IF pc \in {"get_orb_sym_ene_after_ene", "get_orb_ene_log_ret"} THEN oef.line
    ELSE gsf.line

\* C8: every rewind of the scanners puts the cursor back where the line was
\* read, so that reading again yields exactly that line and ends at the
\* same offset as the first read.
C8_IdempotentRewind ==
    fop = "seek" =>
        /\ pos = rpos
        /\ ReadLine(file, pos).line = HeldLine
        /\ ReadLine(file, pos).pos = pos + HeldLine.len + nlw - 1

NoAnchor == \A k \in 1..Len(file) : file[k].mark # AnchorSym

\* C9: on a source without an 'Orbital symmetries:' line get_orb_sym_ene
\* raises a not-found error that identifies the source and the search start
\* offset; it does not return an empty result.
C9_NotFound ==
    (EneDone /\ NoAnchor) =>
        /\ out.st = "raised"
        /\ {"output", "start"} \subseteq ExcAttrs(out.exc.cls)

\* an anchor line, not the first line of the log, followed directly by a
\* line that starts with neither 'Occupied' nor 'Alpha Orbitals:'
FormatBreak ==
    \E k \in 2..(Len(file) - 1) :
        /\ file[k].mark = AnchorSym
        /\ file[k + 1].mark \notin {Occupied, AlphaOrbitals}

\* C10: when the line directly after the anchor starts with neither
\* 'Occupied' nor 'Alpha Orbitals:', get_orb_sym and get_orb_sym_ene fail
\* with a fatal error; they never return None or a partial result.
\* (Checked on logs with "\n" terminators.)
C10_FormatError ==
    (pc = "done" /\ api \in {"get_orb_sym", "get_orb_sym_ene"} /\ nlw = 1 /\ FormatBreak) =>
        out.st = "raised"

\* get_orb_sym_ene returned its data frames
EneReturned == EneDone /\ out.st = "returned"

\* C16 as stated: every record keeps the raw symmetry in its symmetry field,
\* and carries a separate label field exactly when index_sym is True.
C16_RawKept ==
    EneReturned =>
        \A c \in 1..Len(out.val.v) : \A j \in 1..Len(out.val.v[c]) :
            /\ out.val.v[c][j].symmetry = UsedSyms[c][j]
            /\ ("label" \in DOMAIN out.val.v[c][j]) <=> index_sym

\* C16 amended: every record has the fields index, symmetry and energy and
\* no other; with index_sym=True the symmetry field holds the label, a
\* positive integer followed by the raw symmetry, in the place of the raw
\* symmetry; with index_sym=False it holds the raw symmetry unchanged; the
\* energy is the one extracted.
C16_LabelReplaces ==
    EneReturned =>
        \A c \in 1..Len(out.val.v) : \A j \in 1..Len(out.val.v[c]) :
            LET rec == out.val.v[c][j]
            IN  /\ DOMAIN rec = {"index", "symmetry", "energy"}
                /\ rec.energy = UsedEigs[c][j]
                /\ index_sym =>
                      /\ rec.symmetry # UsedSyms[c][j]
                      /\ \E n \in 1..Len(out.val.v[c]) :
                            rec.symmetry = FormatLabel(n, UsedSyms[c][j])
                /\ ~index_sym => rec.symmetry = UsedSyms[c][j]

C16_Witness ==
    /\ EneReturned
    /\ index_sym
    /\ Len(out.val.v) = 2
    /\ Len(out.val.v[2]) = 2
    /\ UsedSyms[2] = <<"A", "B">>
    /\ out.val.v[2][2].symmetry = "1B"

\* the line numbers of the anchor lines of the log
AnchorLines == {k \in 1..Len(file) : file[k].mark = AnchorSym}

LastAnchor == CHOOSE k \in AnchorLines : \A m \in AnchorLines : m <= k

\* the tokens of the symmetry block that starts at line k, and the line
\* after the block
RECURSIVE SymBlockAt(_)
SymBlockAt(k) ==
    IF k > Len(file) \/ ~(file[k].mark \in {Occupied, Virtual} \/ StartsWithParen(file[k]))
    THEN [toks |-> <<>>, next |-> k]
    ELSE LET rest == SymBlockAt(k + 1)
         IN  [toks |-> file[k].toks \o rest.toks, next |-> rest.next]

\* the values of the alpha eigenvalue lines from line k on
RECURSIVE AlphaBlockAt(_)
AlphaBlockAt(k) ==
    IF k > Len(file) \/ file[k].mark \notin {a_occ_pattern, a_vir_pattern}
    THEN <<>>
    ELSE file[k].vals \o AlphaBlockAt(k + 1)

\* what the last section of a log of restricted sections holds: its
\* symmetries, and its energies after the one line in between
LastSectionSyms == SymBlockAt(LastAnchor + 1).toks
LastSectionEigs == AlphaBlockAt(SymBlockAt(LastAnchor + 1).next + 1)

SeveralSections == Cardinality(AnchorLines) > 1

\* C17: on a log with several 'Orbital symmetries:' sections, what
\* get_orb_sym_ene returns is made of the symmetries and of the energies of
\* the last section of the file, both of that section; with "\n" terminators
\* and as many symmetries as energies in that section it does return.
C17_LastSection ==
    (EneDone /\ SeveralSections) =>
        /\ out.st = "returned" =>
              /\ UsedSyms = <<LastSectionSyms>>
              /\ UsedEigs = <<LastSectionEigs>>
              /\ Len(out.val.v) = 1
              /\ Len(out.val.v[1]) = Len(LastSectionSyms)
              /\ \A j \in 1..Len(out.val.v[1]) :
                    /\ out.val.v[1][j].energy = LastSectionEigs[j]
                    /\ ~index_sym => out.val.v[1][j].symmetry = LastSectionSyms[j]
                    /\ index_sym => \E n \in 1..Len(out.val.v[1]) :
                          out.val.v[1][j].symmetry = FormatLabel(n, LastSectionSyms[j])
        /\ (nlw = 1 /\ Len(LastSectionSyms) = Len(LastSectionEigs)) => out.st = "returned"

C17_Witness ==
    /\ EneReturned
    /\ SeveralSections
    /\ ~index_sym
    /\ Len(top.syms) = 2
    /\ top.syms[1] = << <<"B">> >>
    /\ LastSectionSyms = <<"A", "A">>
    /\ out.val.v[1][1].symmetry = "A"
    /\ out.val.v[1][2].energy = LastSectionEigs[2]

\* the anchor each of the two readers looks for
AnchorOf == IF api = "get_orb_sym" THEN AnchorSym ELSE a_occ_pattern

\* C18: get_orb_sym and get_orb_ene_log return None only if no line of the
\* file starts with their anchor, wherever the section starts in the file,
\* the very first line included.  (Checked on logs with "\n" terminators.)
C18_NoneOnlyWithoutAnchor ==
    ( /\ pc = "done"
      /\ api \in {"get_orb_sym", "get_orb_ene_log"}
      /\ nlw = 1
      /\ out.st = "returned"
      /\ out.val = NoneV ) =>
        \A k \in 1..Len(file) : file[k].mark # AnchorOf

----------------------------------------------------------------------------
(* The QM4D output readers of src/qm4d/orbital.py.                         *)
(*                                                                         *)
(* Electron numbers are floats of the output; they are written here in     *)
(* halves (2 is 1.0, 1 is 0.5), so that fractional numbers exist.          *)

\* most electrons of one spin in a generated output
MaxElec == 2
\* most eigenvalue rows of one block of a generated output
MaxRows == 2
\* most SCF eigenvalue blocks of a generated output
MaxBlocks == 2

ElecMark == "Alpha electrons ="
Spin0Head == "Eigenvalues of spin=  0 :"
Spin1Head == "Eigenvalues of spin=  1 :"
TotalMark == "Total electron number:"
PostMark == "is="

\* f.name of the file object
OutName == "qm4d.out"

\* the lines of an output: 'Alpha electrons = a  Beta electrons = b', the
\* header of an SCF eigenvalue block, the line under it, a row of the block
\* (printed index, eigenvalue, occupation), the line that closes the block,
\* a row of post-LOSC eigenvalues (is, i, eig_dfa, eig_proj), any other line
ElecLine(ind, a, b) == Line(ind, ElecMark, <<>>, <<a, b>>)
ScfHead(ind, s) == Text(ind, IF s = 0 THEN Spin0Head ELSE Spin1Head)
ColumnsLine(ind) == Text(ind, "orbital  eigenvalue  occupation")
ScfRow(ind, k, e) == Line(ind, "", <<>>, <<k, e, 1>>)
TotalLine(ind) == Text(ind, TotalMark)
PostRow(ind, s, i, dfa, proj) == Line(ind, PostMark, <<>>, <<s, i, dfa, proj>>)
QText(ind) == Text(ind, "SCF converged")

\* f.readline() with the blanks the line read starts with
ReadRaw(f, p) ==
    LET R == ReadLine(f, p)
        lead == IF p >= FileSize(f) THEN 0
                ELSE LET L == f[LineAt(f, p)]
                     IN  IF p - L.at <= L.lead THEN L.lead - (p - L.at) ELSE 0
    IN  [line |-> [len |-> R.line.len, mark |-> R.line.mark, toks |-> R.line.toks,
                   vals |-> R.line.vals, lead |-> lead],
         pos |-> R.pos]

\* line.startswith(pat): the line is not stripped first
StartsWithRaw(line, pat) == line.lead = 0 /\ line.mark = pat

\* line.strip(): what the scanners keep of a line
Strip(line) == [mark |-> line.mark, vals |-> line.vals]

\* float.is_integer() and the integer value, for a number written in halves
IsInteger(x) == x % 2 = 0
Whole(x) == x \div 2

\* a float: a number or nan
Float(x) == [nan |-> FALSE, x |-> x]
NaN == [nan |-> TRUE, x |-> 0]

\* ---- the outputs the readers are run on ----

\* the line of the electron numbers: none, integer numbers, a fractional
\* number, a line without the numbers
ElecOptions(ind) ==
    {<<>>, <<ElecLine(ind, 1, 2)>>, <<Line(ind, ElecMark, <<>>, <<>>)>>}
    \cup {<<ElecLine(ind, 2 * a, 2 * b)>> : a \in 0..MaxElec, b \in 0..MaxElec}

\* an SCF eigenvalue block of spin s with n rows; the k-th eigenvalue is k,
\* or k+1 in a block of spin 1 of an output with raised beta levels
ScfBlock(ind, s, n, hi) ==
    <<ScfHead(ind, s), ColumnsLine(ind)>>
    \o [k \in 1..n |-> ScfRow(ind, k, k + (IF hi /\ s = 1 THEN 1 ELSE 0))]

RECURSIVE ScfBlocks(_, _, _, _)
ScfBlocks(ind, spins, n, hi) ==
    IF spins = <<>> THEN <<>>
    ELSE ScfBlock(ind, Head(spins), n, hi)
         \o (IF Len(spins) > 1 THEN <<TotalLine(ind)>> ELSE <<>>)
         \o ScfBlocks(ind, Tail(spins), n, hi)

\* how an output ends after its last block: the closing line and more text,
\* the closing line only, or the end of the file inside the block
Endings(ind) == {<<TotalLine(ind), QText(ind)>>, <<TotalLine(ind)>>, <<>>}

ScfFiles(ind) ==
    { <<QText(ind)>> \o el \o <<QText(ind)>> \o ScfBlocks(ind, spins, n, hi) \o tail :
        el \in ElecOptions(ind),
        spins \in UNION {[1..m -> {0, 1}] : m \in 0..MaxBlocks},
        n \in 0..MaxRows,
        hi \in BOOLEAN,
        tail \in Endings(ind) }

\* a run of post-LOSC eigenvalue rows: n rows of spin 0, then n rows of
\* spin 1 when the output is unrestricted; eig_dfa rises and eig_proj falls
\* with the index
PostRun(ind, n, unres, hi) ==
    [k \in 1..n |-> PostRow(ind, 0, k - 1, k, n - k + (IF hi THEN 1 ELSE 0))]
    \o (IF unres
        THEN [k \in 1..n |-> PostRow(ind, 1, k - 1, k + (IF hi THEN 1 ELSE 0), n - k)]
        ELSE <<>>)

PostFiles(ind) ==
    { <<QText(ind)>> \o el \o <<QText(ind)>> \o PostRun(ind, n, unres, hi) \o tail :
        el \in ElecOptions(ind),
        n \in 0..MaxRows,
        unres \in BOOLEAN,
        hi \in BOOLEAN,
        tail \in {<<>>, <<QText(ind)>>} }

ScfApis == {"scf_IP", "scf_EA", "f_electron_numbers", "f_scf_eig_raw_lines", "f_scf_eigs"}
PostApis == {"post_losc_IP_eigs", "post_losc_EA_eigs", "post_losc_IP", "post_losc_EA",
             "f_post_losc_eig_raw_lines", "f_post_losc_eigs"}

\* the functions that return one eigenvalue of the row chosen by
\* post_losc_IP_eigs / post_losc_EA_eigs, and the functions of the IP
EigWrappers == {"post_losc_IP", "post_losc_EA"}
IPApis == {"scf_IP", "post_losc_IP_eigs", "post_losc_IP"}

_post_losc_eig_names == {"eig_dfa", "eig_proj", "eig_direct", "eig_diag"}

\* the values given for based_on and for selection: supported names and
\* one that is not
BasedOns == {"eig_dfa", "eig_proj", "eig_hf"}
Selections == {"eig_proj", "eig_diag", "eig_hf"}

\* the functions that take a path, and those that take an opened file
PathApis == {"scf_IP", "scf_EA", "post_losc_IP_eigs", "post_losc_EA_eigs"} \cup EigWrappers
FileApis == (ScfApis \cup PostApis) \ PathApis

\* the scanners, which search from the cursor they are called with
Scanners == {"f_electron_numbers", "f_scf_eig_raw_lines", "f_post_losc_eig_raw_lines"}

QEntryOf(a) ==
    IF a \in EigWrappers THEN "post_losc_entry"
    ELSE IF a \in {"post_losc_IP_eigs", "post_losc_EA_eigs"} THEN "post_losc_eigs_entry"
    ELSE IF a \in PathApis THEN "frontier_open"
    ELSE IF a = "f_scf_eigs" THEN "f_scf_eig_raw_lines_entry"
    ELSE IF a = "f_post_losc_eigs" THEN "f_post_losc_eig_raw_lines_entry"
    ELSE a \o "_entry"

\* a call of one reader: a path function on a path that may not exist, or a
\* file function on a file object whose cursor is at the start of the first
\* line or, for the three scanners, of the second line; the lines of the
\* output are unindented or indented by MaxLead blanks
InitQm4d ==
    /\ api \in ScfApis \cup PostApis
    /\ nlw \in (IF api \in PostApis \ EigWrappers THEN {1, 2} ELSE {1})
    /\ \E exists \in (IF api \in PathApis THEN BOOLEAN ELSE {TRUE}) :
       \E based_on \in (IF api \in PostApis \cap PathApis THEN BasedOns ELSE {""}) :
       \E selection \in (IF api \in EigWrappers THEN Selections ELSE {""}) :
          /\ file \in (IF ~exists THEN {<<>>}
                       ELSE {Layout(f, nlw) : f \in UNION {IF api \in PostApis THEN PostFiles(ind)
                                                           ELSE ScfFiles(ind) : ind \in {0, MaxLead}}})
          /\ pos \in (IF api \in Scanners THEN {file[1].at, file[2].at} ELSE {0})
          /\ qm = [qm0 EXCEPT !.exists = exists, !.based_on = based_on,
                              !.selection = selection, !.name = OutName, !.entry = pos]
    /\ index_sym = TRUE
    /\ rpos = pos
    /\ fop = "open"
    /\ pc = QEntryOf(api)
    /\ top = top0
    /\ osf = osf0
    /\ gsf = gsf0
    /\ oef = oef0
    /\ out = Running
    /\ lab = lab0
    /\ inp = inp0

g16 == <<index_sym, top, osf, gsf, oef, lab>>

\* raise e inside a reader: to the except clause `handler` of a caller, or
\* out of the function called when there is none
QRaise(e, handler) ==
    IF handler = "done"
    THEN out' = Raised(e.cls, e.message) /\ pc' = "done"
    ELSE out' = out /\ pc' = handler

\* the exception with the start of the file in the place of `start`
QNotFoundAtZero(start, message) ==
    [cls |-> "QM4D_Output_No_Results_Found", qm4d_out |-> qm.name,
     start |-> 0, message |-> message]

QNotFound(start, message) ==
    [cls |-> "QM4D_Output_No_Results_Found", qm4d_out |-> qm.name,
     start |-> start, message |-> message]

QError(cls, message) == [cls |-> cls, qm4d_out |-> "", start |-> 0, message |-> message]

\* ---- f_electron_numbers ----

\* where f_electron_numbers returns to, and the except clause above it
AfterElectrons == IF api = "f_electron_numbers" THEN "done" ELSE "frontier_fractional"
FrontierHandler == IF api \in PathApis THEN "frontier_except" ELSE "done"

\* lines 54-55 on a file rewound first
f_electron_numbers_entry_from_start ==
    /\ pc = "f_electron_numbers_entry"
    /\ LET R == ReadRaw(file, 0)
       IN  /\ qm' = [qm EXCEPT !.start = 0, !.line = R.line]
           /\ pos' = R.pos
    /\ rpos' = 0
    /\ fop' = "read"
    /\ pc' = "f_electron_numbers_loop"
    /\ UNCHANGED <<file, nlw, api, g16, inp, out>>

\* lines 54-55
f_electron_numbers_entry ==
    /\ pc = "f_electron_numbers_entry"
    /\ LET R == ReadRaw(file, pos)
       IN  /\ qm' = [qm EXCEPT !.start = pos, !.line = R.line]
           /\ pos' = R.pos
    /\ rpos' = pos
    /\ fop' = "read"
    /\ pc' = "f_electron_numbers_loop"
    /\ UNCHANGED <<file, nlw, api, g16, inp, out>>

\* lines 56-63: the loop test, the match with the numbers returned, the
\* next line, or the exception at the end of the file
f_electron_numbers_loop ==
    /\ pc = "f_electron_numbers_loop"
    /\ IF ~Truthy(qm.line)
       THEN /\ qm' = [qm EXCEPT !.exc = QNotFound(qm.start, "Cannot get electron number")]
            /\ QRaise(qm'.exc, FrontierHandler)
            /\ fop' = "none"
            /\ UNCHANGED <<pos, rpos>>
       ELSE IF StartsWithRaw(qm.line, ElecMark)
       THEN /\ IF qm.line.vals = <<>>
               THEN /\ qm' = [qm EXCEPT !.exc = QError("IndexError", "list index out of range")]
                    /\ QRaise(qm'.exc, FrontierHandler)
               ELSE /\ qm' = [qm EXCEPT !.elec = <<qm.line.vals[1], Last(qm.line.vals)>>]
                    /\ pc' = AfterElectrons
                    /\ out' = IF AfterElectrons = "done" THEN Returned(Some(qm'.elec)) ELSE out
            /\ fop' = "none"
            /\ UNCHANGED <<pos, rpos>>
       ELSE /\ LET R == ReadRaw(file, pos)
               IN  /\ qm' = [qm EXCEPT !.line = R.line]
                   /\ pos' = R.pos
            /\ rpos' = pos
            /\ fop' = "read"
            /\ pc' = "f_electron_numbers_loop"
            /\ out' = out
    /\ UNCHANGED <<file, nlw, api, g16, inp>>

\* ---- f_scf_eig_raw_lines and its helper append_eigs ----

AfterScfRawLines == IF api = "f_scf_eig_raw_lines" THEN "done" ELSE "f_scf_eigs_build"
ScfRawHandler == IF api = "f_scf_eig_raw_lines" THEN "done" ELSE "f_scf_eigs_reraise"

\* lines 166-169
f_scf_eig_raw_lines_entry ==
    /\ pc = "f_scf_eig_raw_lines_entry"
    /\ LET R == ReadRaw(file, pos)
       IN  /\ qm' = [qm EXCEPT !.start = pos, !.eig_lines = <<>>, !.hdr = <<>>,
                               !.line = R.line]
           /\ pos' = R.pos
    /\ rpos' = pos
    /\ fop' = "read"
    /\ pc' = "f_scf_eig_raw_lines_loop"
    /\ UNCHANGED <<file, nlw, api, g16, inp, out>>

\* lines 170-173, 176-178 and 182: the loop test; on a block header the
\* line under it is read and dropped and append_eigs is called; else the
\* next line.  (qm.hdr notes the spin each header read names; the code
\* keeps no such note.)
f_scf_eig_raw_lines_loop ==
    /\ pc = "f_scf_eig_raw_lines_loop"
    /\ IF ~Truthy(qm.line)
       THEN /\ pc' = "f_scf_eig_raw_lines_exit"
            /\ fop' = "none"
            /\ UNCHANGED <<pos, rpos, qm>>
       ELSE IF StartsWithRaw(qm.line, Spin0Head) \/ StartsWithRaw(qm.line, Spin1Head)
       THEN /\ pos' = ReadRaw(file, pos).pos
            /\ rpos' = pos
            /\ fop' = "read"
            /\ qm' = [qm EXCEPT !.t = <<>>,
                                !.brk = StartsWithRaw(qm.line, Spin1Head),
                                !.hdr = Append(qm.hdr, IF StartsWithRaw(qm.line, Spin0Head)
                                                       THEN 0 ELSE 1)]
            /\ pc' = "append_eigs_entry"
       ELSE /\ LET R == ReadRaw(file, pos)
               IN  /\ qm' = [qm EXCEPT !.line = R.line]
                   /\ pos' = R.pos
            /\ rpos' = pos
            /\ fop' = "read"
            /\ pc' = "f_scf_eig_raw_lines_loop"
    /\ UNCHANGED <<file, nlw, api, g16, inp, out>>

\* line 158
append_eigs_entry ==
    /\ pc = "append_eigs_entry"
    /\ LET R == ReadRaw(file, pos)
       IN  /\ qm' = [qm EXCEPT !.line = R.line]
           /\ pos' = R.pos
    /\ rpos' = pos
    /\ fop' = "read"
    /\ pc' = "append_eigs_loop"
    /\ UNCHANGED <<file, nlw, api, g16, inp, out>>

\* lines 159-164: a line is kept and the next one read, until the line that
\* starts with 'Total electron number:' or the end of the file
append_eigs_loop ==
    /\ pc = "append_eigs_loop"
    /\ IF Truthy(qm.line) /\ ~StartsWithRaw(qm.line, TotalMark)
       THEN /\ LET R == ReadRaw(file, pos)
               IN  /\ qm' = [qm EXCEPT !.t = Append(qm.t, Strip(qm.line)), !.line = R.line]
                   /\ pos' = R.pos
            /\ rpos' = pos
            /\ fop' = "read"
            /\ pc' = "append_eigs_loop"
       ELSE /\ pc' = "f_scf_eig_raw_lines_appended"
            /\ fop' = "none"
            /\ UNCHANGED <<pos, rpos, qm>>
    /\ UNCHANGED <<file, nlw, api, g16, inp, out>>

\* lines 175 and 180-182: the block is appended; after a block of spin 1
\* the loop is left, after a block of spin 0 the next line is read
f_scf_eig_raw_lines_appended ==
    /\ pc = "f_scf_eig_raw_lines_appended"
    /\ IF qm.brk
       THEN /\ qm' = [qm EXCEPT !.eig_lines = Append(qm.eig_lines, qm.t)]
            /\ pc' = "f_scf_eig_raw_lines_exit"
            /\ fop' = "none"
            /\ UNCHANGED <<pos, rpos>>
       ELSE /\ LET R == ReadRaw(file, pos)
               IN  /\ qm' = [qm EXCEPT !.eig_lines = Append(qm.eig_lines, qm.t),
                                       !.line = R.line]
                   /\ pos' = R.pos
            /\ rpos' = pos
            /\ fop' = "read"
            /\ pc' = "f_scf_eig_raw_lines_loop"
    /\ UNCHANGED <<file, nlw, api, g16, inp, out>>

\* lines 183-187
f_scf_eig_raw_lines_exit ==
    /\ pc = "f_scf_eig_raw_lines_exit"
    /\ IF qm.eig_lines # <<>>
       THEN /\ pc' = AfterScfRawLines
            /\ out' = IF AfterScfRawLines = "done" THEN Returned(Some(qm.eig_lines)) ELSE out
            /\ qm' = qm
       ELSE LET e == QNotFound(qm.start, "Find NO raw lines for SCF eigenvalues.")
            IN  /\ qm' = [qm EXCEPT !.exc = e]
                /\ QRaise(e, ScfRawHandler)
    /\ fop' = "none"
    /\ UNCHANGED <<file, nlw, api, g16, inp, pos, rpos>>

\* ---- f_scf_eigs ----

\* a line of a block from which the index, the eigenvalue and the occupation
\* can be read (lines 214-217)
ScfRowOk(l) == l.mark = "" /\ Len(l.vals) = 3

\* lines 211-222: the rows of all blocks; the spin of a row is the number
\* of blocks before its block, its index the printed index minus one
RECURSIVE ScfTable(_, _)
ScfTable(eig_lines, spin) ==
    IF eig_lines = <<>> THEN <<>>
    ELSE [k \in 1..Len(Head(eig_lines)) |->
            [is |-> spin,
             i |-> Head(eig_lines)[k].vals[1] - 1,
             eig_dfa |-> Head(eig_lines)[k].vals[2],
             occ |-> Head(eig_lines)[k].vals[3]]]
         \o ScfTable(Tail(eig_lines), spin + 1)

AfterScfEigs == IF api = "f_scf_eigs" THEN "done"
                ELSE IF api = "scf_IP" THEN "scf_IP_select" ELSE "scf_EA_select"

\* lines 208-225 and 228-230: the table, or the exception for a line that
\* cannot be converted
f_scf_eigs_build ==
    /\ pc = "f_scf_eigs_build"
    /\ IF \E b \in 1..Len(qm.eig_lines) : \E k \in 1..Len(qm.eig_lines[b]) :
             ~ScfRowOk(qm.eig_lines[b][k])
       THEN LET e == QError("Exception", "Fail to store all SCF eigenvalues in pd.DataFrame")
            IN  /\ qm' = [qm EXCEPT !.exc = e]
                /\ QRaise(e, FrontierHandler)
       ELSE /\ qm' = [qm EXCEPT !.eigs = ScfTable(qm.eig_lines, 0)]
            /\ pc' = AfterScfEigs
            /\ out' = IF AfterScfEigs = "done" THEN Returned(Some(qm'.eigs)) ELSE out
    /\ fop' = "none"
    /\ UNCHANGED <<file, nlw, api, g16, inp, pos, rpos>>

\* lines 226-227: the not-found exception is raised again as it is
f_scf_eigs_reraise ==
    /\ pc = "f_scf_eigs_reraise"
    /\ QRaise(qm.exc, FrontierHandler)
    /\ fop' = "none"
    /\ UNCHANGED <<file, nlw, api, g16, inp, pos, rpos, qm>>

\* ---- f_post_losc_eig_raw_lines ----

\* lines 79-82: the names eig_dfa and eig_proj stand on a line exactly when
\* it carries the values
is_eig_line(line) == StartsWithRaw(line, PostMark) /\ line.vals # <<>>

AfterPostRawLines == IF api = "f_post_losc_eig_raw_lines" THEN "done"
                     ELSE "f_post_losc_eigs_build"
PostRawHandler == IF api = "f_post_losc_eig_raw_lines" THEN "done"
                  ELSE "f_post_losc_eigs_reraise"

\* lines 83-87
f_post_losc_eig_raw_lines_entry ==
    /\ pc = "f_post_losc_eig_raw_lines_entry"
    /\ LET R == ReadRaw(file, pos)
       IN  /\ qm' = [qm EXCEPT !.start = pos, !.eig_lines = <<>>,
                               !.visited_eigs = FALSE, !.line = R.line]
           /\ pos' = R.pos
    /\ rpos' = pos
    /\ fop' = "read"
    /\ pc' = "f_post_losc_eig_raw_lines_loop"
    /\ UNCHANGED <<file, nlw, api, g16, inp, out>>

\* lines 88-96: one pass of the while loop: the line is kept if it is an
\* eigenvalue line, the next line is read, and after the run the cursor is
\* moved back by the length of that next line
f_post_losc_eig_raw_lines_loop ==
    /\ pc = "f_post_losc_eig_raw_lines_loop"
    /\ IF ~Truthy(qm.line)
       THEN /\ pc' = "f_post_losc_eig_raw_lines_exit"
            /\ fop' = "none"
            /\ UNCHANGED <<pos, rpos, qm>>
       ELSE LET R == ReadRaw(file, pos)
                hit == is_eig_line(qm.line)
                visited == qm.visited_eigs \/ hit
                leave == visited /\ ~is_eig_line(R.line)
            IN  /\ qm' = [qm EXCEPT
                            !.eig_lines = IF hit THEN Append(qm.eig_lines, Strip(qm.line))
                                          ELSE qm.eig_lines,
                            !.visited_eigs = visited,
                            !.line = R.line]
                /\ rpos' = pos
                /\ pos' = IF leave THEN RewindTarget(R.pos, R.line) ELSE R.pos
                /\ fop' = IF leave THEN "seek" ELSE "read"
                /\ pc' = IF leave THEN "f_post_losc_eig_raw_lines_exit"
                         ELSE "f_post_losc_eig_raw_lines_loop"
    /\ UNCHANGED <<file, nlw, api, g16, inp, out>>

\* lines 97-101
f_post_losc_eig_raw_lines_exit ==
    /\ pc = "f_post_losc_eig_raw_lines_exit"
    /\ IF qm.eig_lines # <<>>
       THEN /\ pc' = AfterPostRawLines
            /\ out' = IF AfterPostRawLines = "done" THEN Returned(Some(qm.eig_lines)) ELSE out
            /\ qm' = qm
       ELSE LET e == QNotFound(qm.start, "Cannot find raw lines for post-LOSC eigenvalues")
            IN  /\ qm' = [qm EXCEPT !.exc = e]
                /\ QRaise(e, PostRawHandler)
    /\ fop' = "none"
    /\ UNCHANGED <<file, nlw, api, g16, inp, pos, rpos>>

\* ---- f_post_losc_eigs ----

\* lines 124-135: one row of the table per line
PostTable(eig_lines) ==
    [k \in 1..Len(eig_lines) |->
        [is |-> eig_lines[k].vals[1], i |-> eig_lines[k].vals[2],
         eig_dfa |-> eig_lines[k].vals[3], eig_proj |-> eig_lines[k].vals[4],
         eig_direct |-> 0, eig_diag |-> 0]]

AfterPostEigs == IF api = "f_post_losc_eigs" THEN "done"
                 ELSE IF api \in IPApis THEN "post_losc_IP_eigs_select"
                 ELSE "post_losc_EA_eigs_select"

\* lines 124-136 and 139-141
f_post_losc_eigs_build ==
    /\ pc = "f_post_losc_eigs_build"
    /\ IF \E k \in 1..Len(qm.eig_lines) : Len(qm.eig_lines[k].vals) # 4
       THEN LET e == QError("Exception",
                            "Fail to store all post-LOSC eigenvalues in pd.DataFrame")
            IN  /\ qm' = [qm EXCEPT !.exc = e]
                /\ QRaise(e, FrontierHandler)
       ELSE /\ qm' = [qm EXCEPT !.eigs = PostTable(qm.eig_lines)]
            /\ pc' = AfterPostEigs
            /\ out' = IF AfterPostEigs = "done" THEN Returned(Some(qm'.eigs)) ELSE out
    /\ fop' = "none"
    /\ UNCHANGED <<file, nlw, api, g16, inp, pos, rpos>>

\* lines 137-138
f_post_losc_eigs_reraise ==
    /\ pc = "f_post_losc_eigs_reraise"
    /\ QRaise(qm.exc, FrontierHandler)
    /\ fop' = "none"
    /\ UNCHANGED <<file, nlw, api, g16, inp, pos, rpos, qm>>

\* ---- scf_IP, scf_EA, post_losc_IP_eigs, post_losc_EA_eigs ----

\* lines 378-380 (scf_IP; the same in scf_EA 417-419, post_losc_EA_eigs
\* 251-254 and post_losc_IP_eigs 317-319): the file is opened and
\* f_electron_numbers called on it
frontier_open ==
    /\ pc = "frontier_open"
    /\ IF ~qm.exists
       THEN /\ qm' = [qm EXCEPT !.exc = QError("FileNotFoundError", "No such file or directory")]
            /\ pc' = "frontier_except"
       ELSE /\ qm' = [qm EXCEPT !.entry = pos]
            /\ pc' = "f_electron_numbers_entry"
    /\ fop' = "open"
    /\ UNCHANGED <<file, nlw, api, g16, inp, pos, rpos, out>>

\* lines 381-384 (scf_IP; the same in scf_EA 420-423, post_losc_EA_eigs
\* 255-260 and post_losc_IP_eigs 320-324): fractional electron numbers
\* raise, integer ones lead to the call of the eigenvalue reader
frontier_fractional ==
    /\ pc = "frontier_fractional"
    /\ IF ~IsInteger(qm.elec[1]) \/ ~IsInteger(qm.elec[2])
       THEN /\ qm' = [qm EXCEPT !.exc = QError("Exception", "Detect fractional electron.")]
            /\ pc' = "frontier_except"
       ELSE /\ qm' = [qm EXCEPT !.entry = pos]
            /\ pc' = IF api \in ScfApis THEN "f_scf_eig_raw_lines_entry"
                     ELSE "f_post_losc_eig_raw_lines_entry"
    /\ fop' = "none"
    /\ UNCHANGED <<file, nlw, api, g16, inp, pos, rpos, out>>

\* eigs[(eigs['is'] == s) & (eigs['i'] == i)].copy().reset_index(drop=True)
RowsOf(eigs, s, i) == SelectSeq(eigs, LAMBDA r : r.is = s /\ r.i = i)

\* float(df[col]) raises TypeError unless df has exactly one row
FloatOk(df) == Len(df) = 1

\* lines 325-335 with > in the place of >=
SelectIPStrict(eigs, aelec, belec, col) ==
    LET a_homo == Whole(aelec) - 1
        b_homo == Whole(belec) - 1
        a_eig == RowsOf(eigs, 0, a_homo)
        b_eig == RowsOf(eigs, 1, b_homo)
    IN  IF b_homo < 0 THEN [ok |-> TRUE, df |-> a_eig]
        ELSE IF ~FloatOk(a_eig) \/ ~FloatOk(b_eig) THEN [ok |-> FALSE, df |-> <<>>]
        ELSE [ok |-> TRUE, df |-> IF a_eig[1][col] > b_eig[1][col] THEN a_eig ELSE b_eig]

\* lines 385-397 of scf_IP and 325-335 of post_losc_IP_eigs: the row of the
\* alpha HOMO, or the one of the beta HOMO when its value is higher
SelectIP(eigs, aelec, belec, col) ==
    LET a_homo == Whole(aelec) - 1
        b_homo == Whole(belec) - 1
        a_eig == RowsOf(eigs, 0, a_homo)
        b_eig == RowsOf(eigs, 1, b_homo)
    IN  IF b_homo < 0 THEN [ok |-> TRUE, df |-> a_eig]
        ELSE IF ~FloatOk(a_eig) \/ ~FloatOk(b_eig) THEN [ok |-> FALSE, df |-> <<>>]
        ELSE [ok |-> TRUE, df |-> IF a_eig[1][col] >= b_eig[1][col] THEN a_eig ELSE b_eig]

\* lines 424-431 of scf_EA and 261-267 of post_losc_EA_eigs: the row of the
\* alpha LUMO, or the one of the beta LUMO when its value is lower
SelectEA(eigs, aelec, belec, col) ==
    LET a_lumo == Whole(aelec)
        b_lumo == Whole(belec)
        a_eig == RowsOf(eigs, 0, a_lumo)
        b_eig == RowsOf(eigs, 1, b_lumo)
    IN  IF ~FloatOk(a_eig) \/ ~FloatOk(b_eig) THEN [ok |-> FALSE, df |-> <<>>]
        ELSE [ok |-> TRUE, df |-> IF a_eig[1][col] <= b_eig[1][col] THEN a_eig ELSE b_eig]

TypeErrorFloat == QError("TypeError", "cannot convert the series to <class 'float'>")

\* lines 385-398
scf_IP_select ==
    /\ pc = "scf_IP_select"
    /\ LET sel == SelectIP(qm.eigs, qm.elec[1], qm.elec[2], "eig_dfa")
       IN  IF sel.ok /\ FloatOk(sel.df)
           THEN /\ out' = Returned(Float(sel.df[1].eig_dfa))
                /\ pc' = "done"
                /\ qm' = qm
           ELSE /\ qm' = [qm EXCEPT !.exc = TypeErrorFloat]
                /\ pc' = "frontier_except"
                /\ out' = out
    /\ fop' = "none"
    /\ UNCHANGED <<file, nlw, api, g16, inp, pos, rpos>>

\* lines 424-432
scf_EA_select ==
    /\ pc = "scf_EA_select"
    /\ LET sel == SelectEA(qm.eigs, qm.elec[1], qm.elec[2], "eig_dfa")
       IN  IF sel.ok /\ FloatOk(sel.df)
           THEN /\ out' = Returned(Float(sel.df[1].eig_dfa))
                /\ pc' = "done"
                /\ qm' = qm
           ELSE /\ qm' = [qm EXCEPT !.exc = TypeErrorFloat]
                /\ pc' = "frontier_except"
                /\ out' = out
    /\ fop' = "none"
    /\ UNCHANGED <<file, nlw, api, g16, inp, pos, rpos>>

\* return v of post_losc_IP_eigs / post_losc_EA_eigs: to the caller of the
\* API, or into the float(...[selection]) of post_losc_IP / post_losc_EA
EigsReturn(v) ==
    IF api \in EigWrappers
    THEN /\ qm' = [qm EXCEPT !.ret = v]
         /\ pc' = "post_losc_float"
         /\ out' = out
    ELSE /\ out' = Returned(v)
         /\ pc' = "done"
         /\ qm' = qm

\* lines 325-335: the data frame selected is returned as it is
post_losc_IP_eigs_select ==
    /\ pc = "post_losc_IP_eigs_select"
    /\ LET sel == SelectIP(qm.eigs, qm.elec[1], qm.elec[2], qm.based_on)
       IN  IF sel.ok
           THEN EigsReturn(Some(sel.df))
           ELSE /\ qm' = [qm EXCEPT !.exc = TypeErrorFloat]
                /\ pc' = "frontier_except"
                /\ out' = out
    /\ fop' = "none"
    /\ UNCHANGED <<file, nlw, api, g16, inp, pos, rpos>>

\* lines 261-267
post_losc_EA_eigs_select ==
    /\ pc = "post_losc_EA_eigs_select"
    /\ LET sel == SelectEA(qm.eigs, qm.elec[1], qm.elec[2], qm.based_on)
       IN  IF sel.ok
           THEN EigsReturn(Some(sel.df))
           ELSE /\ qm' = [qm EXCEPT !.exc = TypeErrorFloat]
                /\ pc' = "frontier_except"
                /\ out' = out
    /\ fop' = "none"
    /\ UNCHANGED <<file, nlw, api, g16, inp, pos, rpos>>

\* lines 399-401 without the except clause: the exception leaves the function
frontier_raise ==
    /\ pc = "frontier_except"
    /\ out' = Raised(qm.exc.cls, qm.exc.message)
    /\ pc' = "done"
    /\ fop' = "none"
    /\ UNCHANGED <<file, nlw, api, g16, inp, pos, rpos, qm>>

\* lines 399-401 (scf_IP; the same in scf_EA 433-435, post_losc_EA_eigs
\* 268-270 and post_losc_IP_eigs 336-338): every Exception is caught; the
\* SCF functions return nan, the post-LOSC ones None
frontier_except ==
    /\ pc = "frontier_except"
    /\ IF api \in ScfApis
       THEN out' = Returned(NaN) /\ pc' = "done" /\ qm' = qm
       ELSE EigsReturn(NoneV)
    /\ fop' = "none"
    /\ UNCHANGED <<file, nlw, api, g16, inp, pos, rpos>>

\* ---- post_losc_IP, post_losc_EA ----

ValueErrorNames(arg) ==
    QError("ValueError", "Valid values for '" \o arg \o "' are: " \o
           "('eig_dfa', 'eig_proj', 'eig_direct', 'eig_diag')'.")

\* lines 288-290 (post_losc_EA; the same in post_losc_IP 356-358): a
\* selection that is not supported raises before the try statement
post_losc_entry ==
    /\ pc = "post_losc_entry"
    /\ IF qm.selection \notin _post_losc_eig_names
       THEN LET e == ValueErrorNames("selection")
            IN  qm' = [qm EXCEPT !.exc = e] /\ QRaise(e, "done")
       ELSE qm' = qm /\ pc' = "post_losc_eigs_entry" /\ out' = out
    /\ fop' = "none"
    /\ UNCHANGED <<file, nlw, api, g16, inp, pos, rpos>>

\* lines 247-249 (post_losc_EA_eigs; the same in post_losc_IP_eigs
\* 313-315): a based_on that is not supported raises before the try
\* statement of post_losc_*_eigs; called from post_losc_IP / post_losc_EA
\* (lines 293, 361) the raise is inside their try statement
post_losc_eigs_entry ==
    /\ pc = "post_losc_eigs_entry"
    /\ IF qm.based_on \notin _post_losc_eig_names
       THEN LET e == ValueErrorNames("based_on")
            IN  /\ qm' = [qm EXCEPT !.exc = e]
                /\ QRaise(e, IF api \in EigWrappers THEN "post_losc_except" ELSE "done")
       ELSE qm' = qm /\ pc' = "frontier_open" /\ out' = out
    /\ fop' = "none"
    /\ UNCHANGED <<file, nlw, api, g16, inp, pos, rpos>>

\* line 293 (post_losc_EA; line 361 of post_losc_IP): float(df[selection])
\* of the value returned; None has no columns and a column that is not one
\* value has no float
post_losc_float ==
    /\ pc = "post_losc_float"
    /\ IF qm.ret = NoneV
       THEN /\ qm' = [qm EXCEPT !.exc = QError("TypeError", "'NoneType' object is not subscriptable")]
            /\ pc' = "post_losc_except"
            /\ out' = out
       ELSE IF ~FloatOk(qm.ret.v)
       THEN /\ qm' = [qm EXCEPT !.exc = TypeErrorFloat]
            /\ pc' = "post_losc_except"
            /\ out' = out
       ELSE /\ out' = Returned(Float(qm.ret.v[1][qm.selection]))
            /\ pc' = "done"
            /\ qm' = qm
    /\ fop' = "none"
    /\ UNCHANGED <<file, nlw, api, g16, inp, pos, rpos>>

\* lines 294-296 (post_losc_EA; 362-364 of post_losc_IP)
post_losc_except ==
    /\ pc = "post_losc_except"
    /\ out' = Returned(NaN)
    /\ pc' = "done"
    /\ fop' = "none"
    /\ UNCHANGED <<file, nlw, api, g16, inp, pos, rpos, qm>>

NextQm4d ==
    \/ post_losc_entry
    \/ post_losc_eigs_entry
    \/ post_losc_float
    \/ post_losc_except
    \/ frontier_open
    \/ frontier_fractional
    \/ frontier_except
    \/ scf_IP_select
    \/ scf_EA_select
    \/ post_losc_IP_eigs_select
    \/ post_losc_EA_eigs_select
    \/ f_electron_numbers_entry
    \/ f_electron_numbers_loop
    \/ f_scf_eig_raw_lines_entry
    \/ f_scf_eig_raw_lines_loop
    \/ append_eigs_entry
    \/ append_eigs_loop
    \/ f_scf_eig_raw_lines_appended
    \/ f_scf_eig_raw_lines_exit
    \/ f_scf_eigs_build
    \/ f_scf_eigs_reraise
    \/ f_post_losc_eig_raw_lines_entry
    \/ f_post_losc_eig_raw_lines_loop
    \/ f_post_losc_eig_raw_lines_exit
    \/ f_post_losc_eigs_build
    \/ f_post_losc_eigs_reraise

SpecQm4d == InitQm4d /\ [][NextQm4d]_vars

----------------------------------------------------------------------------
(* f_post_losc_eig_raw_lines called again and again on one file object, on *)
(* outputs with several runs of eigenvalue lines.                          *)

\* most lines of such an output, and most further calls
MaxOut == 4
MaxAgain == 1

\* line k of an output: an eigenvalue line at the start of the line ("e"),
\* the same behind MaxLead blanks ("i"), or other text ("x"); the index
\* written on an eigenvalue line is its line number
RunLine(kind, k) ==
    IF kind = "e" THEN PostRow(0, 0, k, k, k)
    ELSE IF kind = "i" THEN PostRow(MaxLead, 0, k, k, k)
    ELSE QText(0)

RunFiles ==
    {[k \in 1..Len(kinds) |-> RunLine(kinds[k], k)] :
        kinds \in UNION {[1..m -> {"e", "i", "x"}] : m \in 1..MaxOut}}

\* the first call: on a file object whose cursor is at the start of a line
InitRuns ==
    /\ api = "f_post_losc_eig_raw_lines"
    /\ nlw \in {1, 2}
    /\ file \in {Layout(f, nlw) : f \in RunFiles}
    /\ pos \in {file[k].at : k \in 1..Len(file)}
    /\ qm = [qm0 EXCEPT !.name = OutName, !.entry = pos]
    /\ index_sym = TRUE
    /\ rpos = pos
    /\ fop = "open"
    /\ pc = QEntryOf(api)
    /\ top = top0
    /\ osf = osf0
    /\ gsf = gsf0
    /\ oef = oef0
    /\ out = Running
    /\ lab = lab0
    /\ inp = inp0

\* the caller keeps the lines returned and calls f_post_losc_eig_raw_lines
\* again on the same file object, the cursor where the call left it
f_post_losc_eig_raw_lines_again ==
    /\ pc = "done"
    /\ api = "f_post_losc_eig_raw_lines"
    /\ out.st = "returned"
    /\ qm.calls < MaxAgain
    /\ qm' = [qm EXCEPT !.calls = qm.calls + 1, !.prev = out.val.v]
    /\ out' = Running
    /\ pc' = QEntryOf(api)
    /\ fop' = "none"
    /\ UNCHANGED <<file, nlw, api, g16, inp, pos, rpos>>

NextRuns ==
    \/ f_post_losc_eig_raw_lines_entry
    \/ f_post_losc_eig_raw_lines_loop
    \/ f_post_losc_eig_raw_lines_exit
    \/ f_post_losc_eig_raw_lines_again

SpecRuns == InitRuns /\ [][NextRuns]_vars

----------------------------------------------------------------------------
(* The stream readers of the total energies (src/qm4d/energy.py).  They    *)
(* use the variables of the QM4D readers: the file, the cursor and qm.line. *)

\* most lines of a generated stream
MaxLines == 3

Step1Mark == "ITER=   1  Energy="
LoscMark == "E_tot_losc"
ScfMark == "SCF converged successfully. nIter"

EtotApis == {"f_scf_Etot_step1", "f_losc_Etot", "f_scf_Etot"}

\* the text each reader looks for
EtotMark(a) == IF a = "f_scf_Etot_step1" THEN Step1Mark
               ELSE IF a = "f_losc_Etot" THEN LoscMark
               ELSE ScfMark

\* the lines of a stream: a line that matches nothing, and lines that hold
\* the text looked for followed by nothing, by a field that is not a
\* number ('********'), or by a number
EtotLines(ind, a) ==
    {QText(ind), Text(ind, EtotMark(a)), Line(ind, EtotMark(a), <<"********">>, <<>>)}
    \cup {Line(ind, EtotMark(a), <<>>, <<e>>) : e \in 1..2}

EtotFiles(ind, a) == UNION {[1..n -> EtotLines(ind, a)] : n \in 0..MaxLines}

\* a call of one reader on a stream whose cursor is at the start of one of
\* its lines, or at its end
InitEtot ==
    /\ api \in EtotApis
    /\ nlw = 1
    /\ file \in {Layout(f, nlw) : f \in UNION {EtotFiles(ind, api) : ind \in {0, MaxLead}}}
    /\ pos \in {file[k].at : k \in 1..Len(file)} \cup {FileSize(file)}
    /\ qm = [qm0 EXCEPT !.name = OutName, !.entry = pos]
    /\ index_sym = TRUE
    /\ rpos = pos
    /\ fop = "open"
    /\ pc = "f_Etot_entry"
    /\ top = top0
    /\ osf = osf0
    /\ gsf = gsf0
    /\ oef = oef0
    /\ out = Running
    /\ lab = lab0
    /\ inp = inp0

\* the test of the loop: line.startswith('ITER=   1  Energy=') in
\* f_scf_Etot_step1, `'E_tot_losc' in line` and `'SCF converged
\* successfully. nIter' in line` in the two others
EtotMatch(a, line) ==
    IF a = "f_scf_Etot_step1" THEN StartsWithRaw(line, Step1Mark)
    ELSE line.mark = EtotMark(a)

\* float(line.split()[3]) of f_scf_Etot_step1, whose text is three tokens,
\* and float(line.split()[-1]) of the two others after '=' became ' ': the
\* value, or the class of the exception raised
EtotField(a, line) ==
    IF line.vals # <<>>
    THEN [ok |-> TRUE, x |-> IF a = "f_scf_Etot_step1" THEN line.vals[1]
                             ELSE line.vals[Len(line.vals)], cls |-> ""]
    ELSE IF line.toks = <<>> /\ a = "f_scf_Etot_step1"
    THEN [ok |-> FALSE, x |-> 0, cls |-> "IndexError"]
    ELSE [ok |-> FALSE, x |-> 0, cls |-> "ValueError"]

\* lines 62, 78, 95
f_Etot_entry ==
    /\ pc = "f_Etot_entry"
    /\ LET R == ReadRaw(file, pos)
       IN  /\ qm' = [qm EXCEPT !.line = R.line]
           /\ pos' = R.pos
    /\ rpos' = pos
    /\ fop' = "read"
    /\ pc' = "f_Etot_loop"
    /\ UNCHANGED <<file, nlw, api, g16, inp, out>>

\* lines 63-67, 79-84, 96-101
f_Etot_loop ==
    /\ pc = "f_Etot_loop"
    /\ IF ~Truthy(qm.line)
       THEN /\ out' = Returned(NaN)
            /\ pc' = "done"
            /\ fop' = "none"
            /\ UNCHANGED <<qm, pos, rpos>>
       ELSE IF EtotMatch(api, qm.line)
       THEN LET v == EtotField(api, qm.line)
            IN  /\ IF v.ok
                   THEN /\ out' = Returned(Float(v.x))
                        /\ qm' = qm
                   ELSE /\ out' = Raised(v.cls, "")
                        /\ qm' = [qm EXCEPT !.exc = QError(v.cls, "")]
                /\ pc' = "done"
                /\ fop' = "none"
                /\ UNCHANGED <<pos, rpos>>
       ELSE LET R == ReadRaw(file, pos)
            IN  /\ qm' = [qm EXCEPT !.line = R.line]
                /\ pos' = R.pos
                /\ rpos' = pos
                /\ fop' = "read"
                /\ pc' = "f_Etot_loop"
                /\ out' = out
    /\ UNCHANGED <<file, nlw, api, g16, inp>>

NextEtot ==
    \/ f_Etot_entry
    \/ f_Etot_loop

SpecEtot == InitEtot /\ [][NextEtot]_vars

----------------------------------------------------------------------------
(* The editor of QM4D inputs (class Input of src/qm4d/input_file.py).  A    *)
(* string is kept as the tokens split() gives and a flag for blanks around  *)
(* them; inp holds the object (names: _key_cmd_name, blocks:                *)
(* _key_cmd_block), its value before the latest call, and that call.        *)

\* most lines of a generated input file
MaxRaw == 4
\* most calls made on one Input object
MaxCalls == 1

Str(toks) == [pad |-> FALSE, toks |-> toks]
Padded(toks) == [pad |-> TRUE, toks |-> toks]

\* s.strip() and s.split()
StripStr(s) == [pad |-> FALSE, toks |-> s.toks]
Split(s) == s.toks

\* cmd.startswith('$') for a stripped line
IsKeyCmd(s) == s.toks # <<>> /\ s.toks[1] \in {"$qm", "$scf", "$new"}

\* lines 136-145
_array_startswith(array, sub_array) ==
    IF Len(array) < Len(sub_array) THEN FALSE
    ELSE \A i \in 1..Len(sub_array) : array[i] = sub_array[i]

\* lines 126-134 with the pop(0) of lines 111-112: the names in the order of
\* the file, and for every name the lines under its last key line
_split(array, index) ==
    LET n == Cardinality(index)
        idx == [j \in 1..n |-> CHOOSE i \in index : Cardinality({m \in index : m < i}) = j - 1]
        new_idx == idx \o <<Len(array) + 1>>
        names == [j \in 1..n |-> array[idx[j]]]
        last(k) == CHOOSE j \in 1..n : names[j] = k /\ \A m \in (j + 1)..n : names[m] # k
    IN  [names |-> names,
         blocks |-> [k \in {names[j] : j \in 1..n} |->
                        SubSeq(array, new_idx[last(k)] + 1, new_idx[last(k) + 1] - 1)]]

\* lines 105-112: Input(path) on a file with the lines raw
InputOf(raw) ==
    LET raw_cmd == [i \in 1..Len(raw) |-> StripStr(raw[i])]
        key_cmd_idx == {i \in 1..Len(raw) : IsKeyCmd(raw_cmd[i])}
    IN  _split(raw_cmd, key_cmd_idx)

\* the lines of the files: key commands, plain commands, 'end'
RawLines ==
    {Str(<<"$qm">>), Str(<<"$scf">>), Padded(<<"end">>), Padded(<<"a", "1">>),
     Str(<<"a">>), Str(<<"b">>)}

RawFiles == UNION {[1..n -> RawLines] : n \in 0..MaxRaw}

\* list.insert(idx, x)
ListInsert(b, idx, x) ==
    LET i == IF idx > Len(b) THEN Len(b) ELSE idx
    IN  SubSeq(b, 1, i) \o <<x>> \o SubSeq(b, i + 1, Len(b))

\* block_cmd.index('end') + 1 where Python counts from 0, or 0 for ValueError
IndexOfEnd(b) ==
    IF \E i \in 1..Len(b) : b[i] = Str(<<"end">>)
    THEN CHOOSE i \in 1..Len(b) : b[i] = Str(<<"end">>) /\ \A m \in 1..(i - 1) : b[m] # Str(<<"end">>)
    ELSE 0

\* lines 294-311 with the end of the list in the place of the 'end' line
InsertIdxAtEnd(b, position) ==
    IF position = Str(<<"head">>) THEN [ok |-> TRUE, idx |-> 1]
    ELSE IF position = Str(<<"end">>) THEN [ok |-> TRUE, idx |-> Len(b)]
    ELSE LET M == {i \in 1..Len(b) : _array_startswith(Split(b[i]), Split(position))}
         IN  IF M = {} THEN [ok |-> FALSE, idx |-> -1]
             ELSE [ok |-> TRUE, idx |-> CHOOSE i \in M : \A m \in M : i <= m]

\* lines 294-311: the Python index the command is inserted at
InsertIdx(b, position) ==
    IF position = Str(<<"head">>) THEN [ok |-> TRUE, idx |-> 1]
    ELSE IF position = Str(<<"end">>)
    THEN [ok |-> TRUE, idx |-> IF IndexOfEnd(b) = 0 THEN Len(b) ELSE IndexOfEnd(b) - 1]
    ELSE LET M == {i \in 1..Len(b) : _array_startswith(Split(b[i]), Split(position))}
         IN  IF M = {} THEN [ok |-> FALSE, idx |-> -1]
             ELSE [ok |-> TRUE, idx |-> CHOOSE i \in M : \A m \in M : i <= m]

\* the list of keys a call works on: lines 179, 211, 332
KeysOf(names, key_cmd) ==
    IF key_cmd = Str(<<"all">>) THEN names ELSE <<StripStr(key_cmd)>>

\* lines 183-188: the blocks of the keys are rewritten one key after the other
RECURSIVE ReplaceIn(_, _, _, _, _)
ReplaceIn(keys, blocks, line_s, new_line, n) ==
    IF keys = <<>> THEN [ok |-> TRUE, blocks |-> blocks, n |-> n]
    ELSE IF Head(keys) \notin DOMAIN blocks THEN [ok |-> FALSE, blocks |-> blocks, n |-> n]
    ELSE LET b == blocks[Head(keys)]
             hit(i) == _array_startswith(Split(b[i]), line_s)
             nb == [i \in 1..Len(b) |-> IF hit(i) THEN new_line ELSE b[i]]
         IN  ReplaceIn(Tail(keys), [blocks EXCEPT ![Head(keys)] = nb], line_s, new_line,
                       n + Cardinality({i \in 1..Len(b) : hit(i)}))

\* lines 337-342 keeping the lines behind the first one deleted
KeepAfterFirst(b, cmd_s) ==
    LET M == {i \in 1..Len(b) : _array_startswith(Split(b[i]), cmd_s)}
        f == CHOOSE i \in M : \A m \in M : i <= m
    IN  IF M = {} THEN b ELSE SubSeq(b, 1, f - 1) \o SubSeq(b, f + 1, Len(b))

\* lines 337-342: the lines of a block that are kept
Kept(b, cmd_s) == SelectSeq(b, LAMBDA l : ~_array_startswith(Split(l), cmd_s))

\* lines 335-343
RECURSIVE DeleteIn(_, _, _, _)
DeleteIn(keys, blocks, cmd_s, n) ==
    IF keys = <<>> THEN [ok |-> TRUE, blocks |-> blocks, n |-> n]
    ELSE IF Head(keys) \notin DOMAIN blocks THEN [ok |-> FALSE, blocks |-> blocks, n |-> n]
    ELSE LET b == blocks[Head(keys)]
             nb == Kept(b, cmd_s)
         IN  DeleteIn(Tail(keys), [blocks EXCEPT ![Head(keys)] = nb], cmd_s,
                      n + Len(b) - Len(nb))

\* lines 210-218: the lines found, or KeyError
RECURSIVE FindIn(_, _, _)
FindIn(keys, blocks, pattern_s) ==
    IF keys = <<>> THEN [ok |-> TRUE, rst |-> <<>>]
    ELSE IF Head(keys) \notin DOMAIN blocks THEN [ok |-> FALSE, rst |-> <<>>]
    ELSE LET r == FindIn(Tail(keys), blocks, pattern_s)
         IN  [ok |-> r.ok,
              rst |-> SelectSeq(blocks[Head(keys)],
                                LAMBDA l : _array_startswith(Split(l), pattern_s)) \o r.rst]

find(names, blocks, key_cmd, pattern) ==
    FindIn(KeysOf(names, key_cmd), blocks, Split(StripStr(pattern)))

\* lines 239-244 and 265-270: the line, or the class of the exception
find_first(names, blocks, key_cmd, pattern) ==
    LET r == find(names, blocks, key_cmd, pattern)
    IN  IF ~r.ok THEN [exc |-> "KeyError", line |-> Str(<<>>)]
        ELSE IF r.rst = <<>> THEN [exc |-> "ValueError", line |-> Str(<<>>)]
        ELSE [exc |-> "", line |-> r.rst[1]]

find_last(names, blocks, key_cmd, pattern) ==
    LET r == find(names, blocks, key_cmd, pattern)
    IN  IF ~r.ok THEN [exc |-> "KeyError", line |-> Str(<<>>)]
        ELSE IF r.rst = <<>> THEN [exc |-> "ValueError", line |-> Str(<<>>)]
        ELSE [exc |-> "", line |-> r.rst[Len(r.rst)]]

\* the arguments the calls are made with
KeyArgs == {Str(<<"$qm">>), Padded(<<"$new">>)}
KeyOrAll == {Str(<<"$qm">>), Str(<<"all">>)}
Positions == {Str(<<"head">>), Str(<<"end">>), Str(<<"a">>), Str(<<"zz">>)}
Patterns == {Str(<<"a">>), Padded(<<"a", "1">>)}
NewLines == {Padded(<<"a", "2">>), Str(<<"c">>)}

\* an Input made from a file
InitInput ==
    /\ file = <<>>
    /\ nlw = 1
    /\ api = "Input"
    /\ index_sym = TRUE
    /\ pos = 0
    /\ rpos = 0
    /\ fop = "none"
    /\ pc = "input"
    /\ top = top0
    /\ osf = osf0
    /\ gsf = gsf0
    /\ oef = oef0
    /\ out = Running
    /\ lab = lab0
    /\ qm = qm0
    /\ \E raw \in RawFiles :
          inp = [inp0 EXCEPT !.names = InputOf(raw).names, !.blocks = InputOf(raw).blocks]

\* the object after a call: its new value, the value before, the call, the
\* number returned and the class of the exception raised
Called(names, blocks, call, n, exc) ==
    inp' = [names |-> names, blocks |-> blocks,
            before |-> [names |-> inp.names, blocks |-> inp.blocks],
            call |-> call, n |-> n, exc |-> exc, calls |-> inp.calls + 1]

Idle == pc = "input" /\ inp.calls < MaxCalls

others == <<file, nlw, api, g16, pos, rpos, pc, out, fop, qm>>

\* lines 286-314
insert ==
    /\ Idle
    /\ \E key_arg \in KeyArgs, cmd_arg \in {Padded(<<"x">>)}, position \in Positions :
          LET key_cmd == StripStr(key_arg)
              cmd == StripStr(cmd_arg)
              call == [name |-> "insert", key_cmd |-> key_arg, cmd |-> cmd_arg, arg |-> position]
          IN  IF key_cmd \notin DOMAIN inp.blocks
              THEN Called(Append(inp.names, key_cmd),
                          [k \in DOMAIN inp.blocks \cup {key_cmd} |->
                              IF k = key_cmd THEN <<cmd>> ELSE inp.blocks[k]],
                          call, 0, "")
              ELSE LET block_cmd == inp.blocks[key_cmd]
                       at == InsertIdx(block_cmd, position)
                   IN  IF ~at.ok THEN Called(inp.names, inp.blocks, call, 0, "ValueError")
                       ELSE Called(inp.names,
                                   [inp.blocks EXCEPT ![key_cmd] = ListInsert(block_cmd, at.idx, cmd)],
                                   call, 0, "")
    /\ UNCHANGED others

\* lines 179-189
replace_line ==
    /\ Idle
    /\ \E key_cmd \in KeyOrAll, line \in Patterns, new_arg \in NewLines :
          LET r == ReplaceIn(KeysOf(inp.names, key_cmd), inp.blocks,
                             Split(StripStr(line)), StripStr(new_arg), 0)
              call == [name |-> "replace_line", key_cmd |-> key_cmd, cmd |-> line, arg |-> new_arg]
          IN  IF r.ok THEN Called(inp.names, r.blocks, call, r.n, "")
              ELSE Called(inp.names, inp.blocks, call, 0, "KeyError")
    /\ UNCHANGED others

\* lines 332-344
delete_line ==
    /\ Idle
    /\ \E key_cmd \in KeyOrAll, cmd \in Patterns :
          LET r == DeleteIn(KeysOf(inp.names, key_cmd), inp.blocks, Split(StripStr(cmd)), 0)
              call == [name |-> "delete_line", key_cmd |-> key_cmd, cmd |-> cmd, arg |-> Str(<<>>)]
          IN  IF r.ok THEN Called(inp.names, r.blocks, call, r.n, "")
              ELSE Called(inp.names, inp.blocks, call, 0, "KeyError")
    /\ UNCHANGED others

\* list.remove(x): the first x leaves the list
Remove(s, x) ==
    LET f == CHOOSE i \in 1..Len(s) : s[i] = x /\ \A m \in 1..(i - 1) : s[m] # x
    IN  SubSeq(s, 1, f - 1) \o SubSeq(s, f + 1, Len(s))

\* lines 355-357
delete_block ==
    /\ Idle
    /\ \E key_arg \in KeyArgs :
          LET key_cmd == StripStr(key_arg)
              call == [name |-> "delete_block", key_cmd |-> key_arg, cmd |-> Str(<<>>), arg |-> Str(<<>>)]
          IN  IF key_cmd \notin DOMAIN inp.blocks
              THEN Called(inp.names, inp.blocks, call, 0, "KeyError")
              ELSE Called(Remove(inp.names, key_cmd),
                          [k \in DOMAIN inp.blocks \ {key_cmd} |-> inp.blocks[k]],
                          call, 0, "")
    /\ UNCHANGED others

NextInput ==
    \/ insert
    \/ replace_line
    \/ delete_line
    \/ delete_block

SpecInput == InitInput /\ [][NextInput]_vars

----------------------------------------------------------------------------
(* Properties of the QM4D readers. *)

\* the lines at or after the cursor of the call that hold the anchor pat,
\* behind any indentation / at the very start of the line
TrimmedHits(pat) ==
    {k \in 1..Len(file) : file[k].at >= qm.entry /\ file[k].mark = pat}
RawHits(pat) == {k \in TrimmedHits(pat) : file[k].lead = 0}

EndOf(k) == file[k].at + file[k].bytes

FileDone(a) == api = a /\ pc = "done"

\* C11: the QM4D scanners match their anchors after trimming the line: an
\* indented 'Alpha electrons =' line, post-LOSC 'is=' line or
\* 'Eigenvalues of spin=' header at or after the cursor is found.
C11_TrimmedMatch ==
    /\ (FileDone("f_electron_numbers")
          /\ \E k \in TrimmedHits(ElecMark) : file[k].vals # <<>>)
        => out.st = "returned"
    /\ (FileDone("f_post_losc_eig_raw_lines") /\ TrimmedHits(PostMark) # {})
        => out.st = "returned"
    /\ (FileDone("f_scf_eig_raw_lines")
          /\ TrimmedHits(Spin0Head) \cup TrimmedHits(Spin1Head) # {})
        => out.st = "returned"

\* f_electron_numbers has just returned, to its caller or to scf_IP, scf_EA,
\* post_losc_IP_eigs, post_losc_EA_eigs
ElecReturned ==
    \/ FileDone("f_electron_numbers") /\ out.st = "returned"
    \/ pc = "frontier_fractional"

\* C12: when f_electron_numbers returns, the line read last is a line at or
\* after the entry cursor that holds 'Alpha electrons =', no line that
\* starts with it was passed before, the value is the pair of numbers of
\* that line and the cursor is immediately after it; the function never
\* reads before the entry cursor nor moves the cursor backwards.
C12_StopAfterMatch ==
    /\ ElecReturned =>
          /\ rpos < FileSize(file)
          /\ LET k == LineAt(file, rpos)
             IN  /\ k \in TrimmedHits(ElecMark)
                 /\ rpos = file[k].at
                 /\ \A m \in RawHits(ElecMark) : m >= k
                 /\ qm.elec = <<file[k].vals[1], file[k].vals[Len(file[k].vals)]>>
                 /\ pos = EndOf(k)
    /\ pc \in {"f_electron_numbers_entry", "f_electron_numbers_loop"} =>
          (fop # "seek" /\ pos >= qm.entry /\ rpos >= qm.entry)

C12_Witness ==
    /\ FileDone("f_electron_numbers")
    /\ out.st = "returned"
    /\ qm.entry = 0
    /\ out.val = Some(<<2, 4>>)
    /\ pos = file[3].at
    /\ file[3].mark = "SCF converged"

\* the anchors of a reader
AnchorsOf(a) ==
    IF a = "f_electron_numbers" THEN {ElecMark}
    ELSE IF a = "f_post_losc_eig_raw_lines" THEN {PostMark}
    ELSE {Spin0Head, Spin1Head}

NotFoundCls == "QM4D_Output_No_Results_Found"

\* C13: when no line between the entry cursor and the end of the stream
\* matches, f_electron_numbers, f_post_losc_eig_raw_lines and
\* f_scf_eig_raw_lines raise QM4D_Output_No_Results_Found with the name of
\* the source and the cursor offset of the entry; they return nothing.
\* Every such exception, also one raised below scf_IP and the like, carries
\* the name and the entry offset of the reader that raised it.
C13_NotFoundRaised ==
    /\ \A a \in {"f_electron_numbers", "f_post_losc_eig_raw_lines", "f_scf_eig_raw_lines"} :
          (FileDone(a) /\ UNION {TrimmedHits(pat) : pat \in AnchorsOf(a)} = {}) =>
              /\ out.st = "raised"
              /\ out.val = NoneV
              /\ out.exc.cls = NotFoundCls
              /\ qm.exc.cls = NotFoundCls
              /\ qm.exc.qm4d_out = OutName
              /\ qm.exc.start = qm.entry
    /\ qm.exc.cls = NotFoundCls =>
          (qm.exc.qm4d_out = OutName /\ qm.exc.start = qm.entry)

C13_Witness ==
    /\ FileDone("f_scf_eig_raw_lines")
    /\ qm.entry > 0
    /\ Len(file) > 2
    /\ out.st = "raised"
    /\ qm.exc.start = file[2].at

\* f_scf_eig_raw_lines has just returned
ScfRawReturned ==
    \/ FileDone("f_scf_eig_raw_lines") /\ out.st = "returned"
    \/ pc = "f_scf_eigs_build"

TotalLines == {k \in 1..Len(file) : file[k].mark = TotalMark /\ file[k].lead = 0}

\* every eigenvalue block of the output is closed by its
\* 'Total electron number:' line
AllClosed == file[Len(file)].mark # "" /\ file[Len(file)].mark \notin {Spin0Head, Spin1Head}
             /\ \A k \in 1..Len(file) :
                  file[k].mark \in {Spin0Head, Spin1Head} =>
                      \E m \in TotalLines : m > k

\* C14: on every return of f_scf_eig_raw_lines from an output whose blocks
\* are closed, the cursor is at the end of a 'Total electron number:' line,
\* with only a spin-0 block as with spin-0 and spin-1 blocks; the text after
\* that line is not read.
C14_CursorAfterTotal ==
    (ScfRawReturned /\ AllClosed) => \E k \in TotalLines : pos = EndOf(k)

\* f_scf_eigs has just returned
ScfEigsReturned ==
    \/ FileDone("f_scf_eigs") /\ out.st = "returned"
    \/ pc \in {"scf_IP_select", "scf_EA_select"}

\* the spin named by the header above each row, block after block
RECURSIVE HeaderSpins(_, _)
HeaderSpins(eig_lines, hdr) ==
    IF eig_lines = <<>> THEN <<>>
    ELSE [k \in 1..Len(Head(eig_lines)) |-> Head(hdr)]
         \o HeaderSpins(Tail(eig_lines), Tail(hdr))

RECURSIVE Flatten(_)
Flatten(ss) == IF ss = <<>> THEN <<>> ELSE Head(ss) \o Flatten(Tail(ss))

\* C15: every row f_scf_eigs returns has a spin in {0, 1}, the spin named
\* by the header of the block it was read from, and as index the printed
\* index minus one, for any number and order of blocks.
C15_SpinOfHeader ==
    ScfEigsReturned =>
        /\ Len(qm.eigs) = Len(Flatten(qm.eig_lines))
        /\ \A j \in 1..Len(qm.eigs) :
              /\ qm.eigs[j].is \in {0, 1}
              /\ qm.eigs[j].is = HeaderSpins(qm.eig_lines, qm.hdr)[j]
              /\ qm.eigs[j].i = Flatten(qm.eig_lines)[j].vals[1] - 1

\* the lines of the output that hold one of the anchors
LinesWith(pats) == {k \in 1..Len(file) : file[k].mark \in pats}

\* C19: scf_IP and scf_EA never raise: they return a float, which is nan
\* when the file is missing, when an exception was raised below them (no
\* 'Alpha electrons =' line, fractional electron numbers, no eigenvalue
\* block, no single row for the frontier index of a spin); the readers
\* below them never swallow the not-found exception themselves.
C19_ExceptionFree ==
    /\ (api \in {"scf_IP", "scf_EA"} /\ pc = "done") =>
          /\ out.st = "returned"
          /\ DOMAIN out.val = {"nan", "x"}
          /\ (\/ ~qm.exists
              \/ qm.exc # NoQExc
              \/ LinesWith({ElecMark}) = {}
              \/ LinesWith({Spin0Head, Spin1Head}) = {}) => out.val = NaN
          /\ qm.exc = NoQExc => ~out.val.nan
    /\ (api \in FileApis /\ pc = "done" /\ qm.exc.cls = NotFoundCls) => out.st = "raised"

C19_Witness ==
    /\ api = "scf_IP"
    /\ pc = "done"
    /\ qm.exc.cls = NotFoundCls
    /\ qm.exc.start > 0
    /\ qm.elec = <<2, 2>>
    /\ out = Returned(NaN)

\* the rows of spin s and index i of the table read
RowSet(s, i) == {j \in 1..Len(qm.eigs) : qm.eigs[j].is = s /\ qm.eigs[j].i = i}

Only(S) == qm.eigs[CHOOSE j \in S : TRUE]

Max(a, b) == IF a > b THEN a ELSE b

NA == Whole(qm.elec[1])
NB == Whole(qm.elec[2])

\* C20: with integer electron numbers (na, nb) the IP functions give the
\* row of the higher based_on value among the alpha HOMO (spin 0, index
\* na-1) and the beta HOMO (spin 1, index nb-1), the alpha HOMO alone when
\* nb = 0; the EA functions the row of the lower value among the alpha LUMO
\* (index na) and the beta LUMO (index nb); on equal values the alpha row.
C20_FrontierSelection ==
    /\ (FileDone("scf_IP") /\ ~out.val.nan) =>
          /\ Cardinality(RowSet(0, NA - 1)) = 1
          /\ NB = 0 => out.val.x = Only(RowSet(0, NA - 1)).eig_dfa
          /\ NB > 0 =>
                /\ Cardinality(RowSet(1, NB - 1)) = 1
                /\ out.val.x = Max(Only(RowSet(0, NA - 1)).eig_dfa,
                                   Only(RowSet(1, NB - 1)).eig_dfa)
    /\ (FileDone("scf_EA") /\ ~out.val.nan) =>
          /\ Cardinality(RowSet(0, NA)) = 1
          /\ Cardinality(RowSet(1, NB)) = 1
          /\ out.val.x = Min(Only(RowSet(0, NA)).eig_dfa, Only(RowSet(1, NB)).eig_dfa)
    /\ (FileDone("post_losc_IP_eigs") /\ out.val # NoneV /\ NB > 0) =>
          LET a == Only(RowSet(0, NA - 1))
              b == Only(RowSet(1, NB - 1))
          IN  /\ Cardinality(RowSet(0, NA - 1)) = 1
              /\ Cardinality(RowSet(1, NB - 1)) = 1
              /\ out.val.v \in {<<a>>, <<b>>}
              /\ out.val.v[1][qm.based_on] = Max(a[qm.based_on], b[qm.based_on])
              /\ a[qm.based_on] = b[qm.based_on] => out.val.v = <<a>>
    /\ (FileDone("post_losc_IP_eigs") /\ out.val # NoneV /\ NB = 0) =>
          /\ Len(out.val.v) = Cardinality(RowSet(0, NA - 1))
          /\ \A j \in 1..Len(out.val.v) : out.val.v[j].is = 0 /\ out.val.v[j].i = NA - 1
    /\ (FileDone("post_losc_EA_eigs") /\ out.val # NoneV) =>
          LET a == Only(RowSet(0, NA))
              b == Only(RowSet(1, NB))
          IN  /\ Cardinality(RowSet(0, NA)) = 1
              /\ Cardinality(RowSet(1, NB)) = 1
              /\ out.val.v \in {<<a>>, <<b>>}
              /\ out.val.v[1][qm.based_on] = Min(a[qm.based_on], b[qm.based_on])
              /\ a[qm.based_on] = b[qm.based_on] => out.val.v = <<a>>

C20_Witness ==
    /\ FileDone("post_losc_IP_eigs")
    /\ out.val # NoneV
    /\ NB > 0
    /\ Len(out.val.v) = 1
    /\ out.val.v[1].is = 0
    /\ \E j \in RowSet(1, NB - 1) : qm.eigs[j][qm.based_on] = out.val.v[1][qm.based_on]

\* the call ended by raising ValueError
RaisedValueError == out.st = "raised" /\ out.exc.cls = "ValueError"

----------------------------------------------------------------------------
(* Properties of the stream readers of the total energies. *)

\* the lines at or after the cursor of the call that the reader takes for
\* a match
EtotHits ==
    {k \in 1..Len(file) :
        /\ file[k].at >= qm.entry
        /\ EtotMatch(api, [mark |-> file[k].mark, lead |-> file[k].lead])}

FirstHit == CHOOSE k \in EtotHits : \A m \in EtotHits : k <= m

\* C22: f_scf_Etot_step1, f_losc_Etot and f_scf_Etot never raise; they
\* return nan when no line matches before the end of the stream and when
\* the value field of the matched line is missing or not a number; on
\* success the value is the one of the first matching line and the cursor
\* is immediately after that line.
C22_NanOnFailure ==
    (api \in EtotApis /\ pc = "done") =>
        /\ out.st = "returned"
        /\ IF EtotHits = {} \/ file[FirstHit].vals = <<>>
           THEN out.val = NaN
           ELSE /\ out.val = Float(file[FirstHit].vals[1])
                /\ pos = EndOf(FirstHit)

----------------------------------------------------------------------------
(* Properties of the editor of QM4D inputs. *)

\* the latest call was `name`, on a block that existed, and it returned
CalledOn(name) ==
    /\ inp.call.name = name
    /\ StripStr(inp.call.key_cmd) \in DOMAIN inp.before.blocks

\* the block the latest call names, before and after the call
BlockBefore == inp.before.blocks[StripStr(inp.call.key_cmd)]
BlockAfter == inp.blocks[StripStr(inp.call.key_cmd)]

\* the blocks the latest call does not name are as they were
OthersKept ==
    /\ inp.names = inp.before.names
    /\ DOMAIN inp.blocks = DOMAIN inp.before.blocks
    /\ \A k \in DOMAIN inp.blocks \ {StripStr(inp.call.key_cmd)} :
          inp.blocks[k] = inp.before.blocks[k]

\* b with x put behind its first i lines
PutAfter(b, i, x) == SubSeq(b, 1, i) \o <<x>> \o SubSeq(b, i + 1, Len(b))

\* C23: insert(key_cmd, cmd, position='head') on an existing block makes cmd
\* the first line of the block, whatever the length of the block; the lines
\* that were there keep their order.
C23_HeadIsFirst ==
    (CalledOn("insert") /\ inp.call.arg = Str(<<"head">>)) =>
        /\ inp.exc = ""
        /\ BlockAfter = <<StripStr(inp.call.cmd)>> \o BlockBefore
        /\ OthersKept

\* the line is the 'end' line / starts with the tokens of the position
IsEnd(l) == l = Str(<<"end">>)
AtPosition(l) == _array_startswith(Split(l), Split(inp.call.arg))

\* C24: insert with position 'end' on an existing block puts cmd right
\* before the 'end' line of the block, or last when the block has none;
\* with any other position (not 'head') it puts cmd right behind the first
\* line whose tokens begin with the tokens of the position, and raises
\* ValueError, the input unchanged, when no line does.
C24_EndAndPosition ==
    (CalledOn("insert") /\ inp.call.arg # Str(<<"head">>)) =>
        LET b == BlockBefore
            x == StripStr(inp.call.cmd)
        IN  /\ OthersKept
            /\ IF inp.call.arg = Str(<<"end">>)
               THEN /\ inp.exc = ""
                    /\ \E i \in 0..Len(b) :
                          /\ BlockAfter = PutAfter(b, i, x)
                          /\ \A m \in 1..i : ~IsEnd(b[m])
                          /\ i < Len(b) => IsEnd(b[i + 1])
               ELSE IF \E m \in 1..Len(b) : AtPosition(b[m])
               THEN /\ inp.exc = ""
                    /\ \E i \in 1..Len(b) :
                          /\ BlockAfter = PutAfter(b, i, x)
                          /\ AtPosition(b[i])
                          /\ \A m \in 1..(i - 1) : ~AtPosition(b[m])
               ELSE /\ inp.exc = "ValueError"
                    /\ BlockAfter = b

C24_Witness ==
    /\ CalledOn("insert")
    /\ inp.call.arg = Str(<<"end">>)
    /\ Len(BlockBefore) = 3
    /\ IsEnd(BlockBefore[2])
    /\ BlockAfter[2] = Str(<<"x">>)

\* the blocks a replace_line / delete_line call works on
Targets ==
    IF inp.call.key_cmd = Str(<<"all">>) THEN DOMAIN inp.before.blocks
    ELSE {StripStr(inp.call.key_cmd)}

\* the line starts with the tokens of the pattern of the call
Matches(l) == _array_startswith(Split(l), Split(StripStr(inp.call.cmd)))

\* the places (block, line number) of the matching lines before the call
MatchPlaces ==
    {p \in Targets \X (1..(MaxRaw + MaxCalls)) :
        /\ p[2] <= Len(inp.before.blocks[p[1]])
        /\ Matches(inp.before.blocks[p[1]][p[2]])}

\* C25: replace_line returns the number of lines replaced, which is the
\* number of lines of the targeted block (of all blocks for 'all') whose
\* tokens begin with the tokens of `line`; exactly those lines become the
\* stripped new_line, every other line, every other block and the order of
\* the blocks are unchanged.
C25_ReplaceCount ==
    (inp.call.name = "replace_line" /\ inp.exc = "") =>
        /\ inp.n = Cardinality(MatchPlaces)
        /\ inp.names = inp.before.names
        /\ DOMAIN inp.blocks = DOMAIN inp.before.blocks
        /\ \A k \in DOMAIN inp.blocks :
              /\ Len(inp.blocks[k]) = Len(inp.before.blocks[k])
              /\ \A i \in 1..Len(inp.blocks[k]) :
                    inp.blocks[k][i] = IF <<k, i>> \in MatchPlaces
                                       THEN StripStr(inp.call.arg)
                                       ELSE inp.before.blocks[k][i]

\* C26: delete_line returns the number of lines removed from the targeted
\* block (from all blocks for 'all'); after it find(key_cmd, cmd) is empty,
\* find_first and find_last raise ValueError for the pattern, and the lines
\* that do not match are all there in their order.
C26_DeleteLine ==
    (inp.call.name = "delete_line" /\ inp.exc = "") =>
        /\ inp.n = Cardinality(MatchPlaces)
        /\ inp.names = inp.before.names
        /\ DOMAIN inp.blocks = DOMAIN inp.before.blocks
        /\ \A k \in DOMAIN inp.blocks :
              inp.blocks[k] = IF k \in Targets
                              THEN SelectSeq(inp.before.blocks[k], LAMBDA l : ~Matches(l))
                              ELSE inp.before.blocks[k]
        /\ find(inp.names, inp.blocks, inp.call.key_cmd, inp.call.cmd) = [ok |-> TRUE, rst |-> <<>>]
        /\ find_first(inp.names, inp.blocks, inp.call.key_cmd, inp.call.cmd).exc = "ValueError"
        /\ find_last(inp.names, inp.blocks, inp.call.key_cmd, inp.call.cmd).exc = "ValueError"

C26_Witness ==
    /\ inp.call.name = "delete_line"
    /\ inp.exc = ""
    /\ inp.n = 2
    /\ \E k \in DOMAIN inp.blocks : Len(inp.before.blocks[k]) = 3 /\ Len(inp.blocks[k]) = 1

----------------------------------------------------------------------------
(* Further properties of the Gaussian log scanners. *)

\* _get_sym / _get_orb_ene has just returned because the log ended
SymBlockAtEof ==
    /\ pc \in {"_get_orb_sym_ret1", "_get_orb_sym_ret2", "_get_orb_sym_ret3"}
    /\ ~Truthy(gsf.line)
EneBlockAtEof ==
    /\ pc \in {"get_orb_sym_ene_after_ene", "get_orb_ene_log_ret"}
    /\ ~Truthy(oef.line)

\* _get_sym / _get_orb_ene raised on its first line
EmptyBlock == out.st = "raised" /\ out.exc.message \in {MsgImplSym, MsgImplEne}

\* C27: a block extraction that meets the end of the log after at least one
\* block line completes with the tokens read so far and the cursor at the
\* end of the log; an extraction whose first line is not a block line ends
\* in an error that reports 'no results found' with the source position,
\* and no tokens are returned.
C27_BlockTerminalStates ==
    /\ SymBlockAtEof => (out.st = "running" /\ gsf.syms # <<>> /\ pos = FileSize(file))
    /\ EneBlockAtEof =>
          /\ out.st = "running"
          /\ oef.rst = EneChannels(oef.a_eig, oef.b_eig)
          /\ oef.a_eig # <<>>
          /\ pos = FileSize(file)
    /\ EmptyBlock =>
          /\ out.exc.cls = "NoResultsFoundFromOutput"
          /\ "start" \in ExcAttrs(out.exc.cls)
          /\ out.val = NoneV

\* the number in front of a label of the symmetry sym
PrefixOf(label, sym) == CHOOSE n \in 0..(2 * MaxTok + 2) : label = FormatLabel(n, sym)

\* the prefixes of the labels of the symmetry sym in channel c of the data
\* frames returned, in the order of the channel
PrefixesOf(c, sym) ==
    LET at == SelectSeq([j \in 1..Len(UsedSyms[c]) |-> j], LAMBDA j : UsedSyms[c][j] = sym)
    IN  [k \in 1..Len(at) |-> PrefixOf(out.val.v[c][at[k]].symmetry, sym)]

\* C28: in every channel labelled by _index_symmetry the counter of each
\* symmetry starts at 1, whatever the other channel holds, and the numbers
\* of the labels of one symmetry, in the order of the channel, never fall
\* and never skip a value.
C28_CountersPerChannel ==
    (EneReturned /\ index_sym) =>
        \A c \in 1..Len(out.val.v) : \A sym \in Syms :
            LET p == PrefixesOf(c, sym)
            IN  /\ \A k \in 1..Len(p) :
                      out.val.v[c][SelectSeq([j \in 1..Len(UsedSyms[c]) |-> j],
                                             LAMBDA j : UsedSyms[c][j] = sym)[k]].symmetry
                          = FormatLabel(p[k], sym)
                /\ p # <<>> => p[1] = 1
                /\ \A k \in 1..(Len(p) - 1) : p[k + 1] - p[k] \in {0, 1}

C28_Witness ==
    /\ EneReturned
    /\ index_sym
    /\ Len(out.val.v) = 2
    /\ out.val.v[1][1].symmetry = "1A"
    /\ Len(out.val.v[2]) = 4
    /\ out.val.v[2][2].symmetry = "1A"
    /\ out.val.v[2][3].symmetry = "2A"
    /\ out.val.v[2][4].symmetry = "2A"

\* C29: _index_symmetry returns as many entries as it was given, in the
\* order given: entry k keeps its energy, and its label is a positive
\* integer followed by the symmetry entry k had.
C29_LabelFrame ==
    lab.pc = "done" =>
        /\ Len(lab.res) = Len(lab.input)
        /\ \A k \in 1..Len(lab.input) :
              /\ lab.res[k].energy = lab.input[k].energy
              /\ \E n \in 1..Len(lab.input) :
                    lab.res[k].symmetry = FormatLabel(n, lab.input[k].symmetry)

C29_Witness ==
    /\ lab.pc = "done"
    /\ Len(lab.input) = 3
    /\ Labels(lab.res) = <<"1A", "1A", "2A">>
    /\ lab.input[1].energy # lab.input[2].energy

\* the values of the lines after line k whose marker is in pats, in the
\* order of the file
RECURSIVE ValsAfter(_, _)
ValsAfter(k, pats) ==
    IF k >= Len(file) THEN <<>>
    ELSE (IF file[k + 1].mark \in pats THEN file[k + 1].vals ELSE <<>>)
             \o ValsAfter(k + 1, pats)

\* what the last section of the log holds, read off the lines of the file:
\* the symmetry tokens of each channel (one block right after the anchor, or
\* one block after 'Alpha Orbitals:' and one after 'Beta Orbitals:'), and
\* the energies of each channel (alpha lines, beta lines), occupied and
\* virtual in the order of the file
SrcSyms ==
    LET beta == {k \in (LastAnchor + 1)..Len(file) : file[k].mark = "Beta Orbitals:"}
    IN  IF LastAnchor < Len(file) /\ file[LastAnchor + 1].mark = AlphaOrbitals
        THEN <<SymBlockAt(LastAnchor + 2).toks>>
                 \o (IF beta = {} THEN <<>>
                     ELSE <<SymBlockAt((CHOOSE k \in beta : \A m \in beta : k <= m) + 1).toks>>)
        ELSE <<SymBlockAt(LastAnchor + 1).toks>>

SrcEigs ==
    LET a == ValsAfter(LastAnchor, {a_occ_pattern, a_vir_pattern})
        b == ValsAfter(LastAnchor, {b_occ_pattern, b_vir_pattern})
    IN  IF b = <<>> THEN <<a>> ELSE <<a, b>>

\* the last section has as many channels of symmetries as of energies, and
\* in each channel as many symmetry tokens as energies
WellFormedSection ==
    /\ AnchorLines # {}
    /\ Len(SrcSyms) = Len(SrcEigs)
    /\ \A c \in 1..Len(SrcSyms) : Len(SrcSyms[c]) = Len(SrcEigs[c])

\* C30: on a well-formed section, record j of channel c of what
\* get_orb_sym_ene returns pairs symmetry token j of channel c of the log
\* with energy j of channel c of the log, both counted in the order of the
\* file (occupied before virtual, alpha before beta), and its index field
\* is its place in the channel, counted from 0.
C30_SourceOrder ==
    (EneReturned /\ WellFormedSection) =>
        /\ Len(out.val.v) = Len(SrcSyms)
        /\ \A c \in 1..Len(out.val.v) :
              /\ Len(out.val.v[c]) = Len(SrcSyms[c])
              /\ \A j \in 1..Len(out.val.v[c]) :
                    LET rec == out.val.v[c][j]
                    IN  /\ rec.energy = SrcEigs[c][j]
                        /\ rec.index = j - 1
                        /\ rec.symmetry = (IF index_sym
                                           THEN FormatLabel(PrefixOf(rec.symmetry, SrcSyms[c][j]),
                                                            SrcSyms[c][j])
                                           ELSE SrcSyms[c][j])

C30_Witness ==
    /\ EneReturned
    /\ WellFormedSection
    /\ ~index_sym
    /\ Len(out.val.v) = 2
    /\ Len(out.val.v[2]) = 4
    /\ SrcSyms[2] = <<"A", "B", "A", "B">>
    /\ out.val.v[2][2].symmetry = "B"
    /\ out.val.v[2][2].energy = 1
    /\ out.val.v[2][3].energy = 0
    /\ out.val.v[2][4].index = 3

\* _get_orb_sym has just returned to its caller
OrbSymReturned == api \in {"get_orb_sym", "get_orb_sym_ene"} /\ pc = AfterOrbSym

\* the anchor line the running call of _get_orb_sym was entered on: the
\* last one the cursor is behind
CurAnchor ==
    CHOOSE k \in AnchorLines :
        /\ file[k].at < pos
        /\ \A m \in AnchorLines : file[m].at < pos => m <= k

\* C31: _get_orb_sym returns one channel when the line after the anchor
\* starts with 'Occupied' and two channels when it starts with
\* 'Alpha Orbitals:'.  With two channels, channel 0 is the block before the
\* boundary line and channel 1 the block that starts on the line right
\* after the boundary line: the boundary line is passed once and gives no
\* label.  The call fails in _get_sym only when the line after
\* 'Alpha Orbitals:' or the line after the boundary is not 'Occupied'.
C31_Channels ==
    /\ OrbSymReturned =>
          LET k == CurAnchor
          IN  /\ (k < Len(file) /\ file[k + 1].mark = Occupied) =>
                    osf.ret = Some(<<SymBlockAt(k + 1).toks>>)
              /\ (k < Len(file) /\ file[k + 1].mark = AlphaOrbitals) =>
                    LET al == SymBlockAt(k + 2)
                        be == SymBlockAt(al.next + 1)
                    IN  /\ al.next <= Len(file)
                        /\ al.toks # <<>>
                        /\ be.toks # <<>>
                        /\ osf.ret = Some(<<al.toks, be.toks>>)
    /\ ( /\ api \in {"get_orb_sym", "get_orb_sym_ene"}
         /\ pc = "done"
         /\ out.st = "raised"
         /\ out.exc.message = MsgImplSym ) =>
            /\ CurAnchor < Len(file)
            /\ file[CurAnchor + 1].mark = AlphaOrbitals

C31_Witness ==
    /\ OrbSymReturned
    /\ api = "get_orb_sym"
    /\ CurAnchor + 3 <= Len(file)
    /\ file[CurAnchor + 1].mark = AlphaOrbitals
    /\ file[CurAnchor + 3].mark = "Beta Orbitals:"
    /\ osf.ret = Some(<< <<"A", "B">>, <<"A", "B", "A", "B">> >>)

\* _get_orb_ene has just returned to its caller
OrbEneReturned == api \in {"get_orb_ene_log", "get_orb_sym_ene"} /\ pc = AfterOrbEne

EigPatterns == {a_occ_pattern, a_vir_pattern, b_occ_pattern, b_vir_pattern}

\* the values of the eigenvalue lines of the contiguous block that starts at
\* line k, those of the lines whose marker is in pats, in the order of the file
RECURSIVE BlockVals(_, _)
BlockVals(k, pats) ==
    IF k > Len(file) \/ file[k].mark \notin EigPatterns THEN <<>>
    ELSE (IF file[k].mark \in pats THEN file[k].vals ELSE <<>>) \o BlockVals(k + 1, pats)

\* C32: _get_orb_ene returns 1 or 2 channels.  Channel 0 is made of the
\* values of all alpha lines (occ. and virt.) of the contiguous block of
\* eigenvalue lines it was called on, in the order of the file, channel 1 of
\* the values of all beta lines; channel 1 is there exactly when a beta
\* value was read, and channel 0 is always there.
C32_EneChannels ==
    OrbEneReturned =>
        LET k == LineAt(file, oef.entry)
            a == BlockVals(k, {a_occ_pattern, a_vir_pattern})
            b == BlockVals(k, {b_occ_pattern, b_vir_pattern})
        IN  /\ Len(oef.rst) \in {1, 2}
            /\ oef.rst[1] = a
            /\ Len(oef.rst) = 2 <=> b # <<>>
            /\ Len(oef.rst) = 2 => oef.rst[2] = b

C32_Witness ==
    /\ OrbEneReturned
    /\ api = "get_orb_ene_log"
    /\ oef.rst = << <<0, 1>>, <<0, 1, 0, 1>> >>
    /\ file[LineAt(file, oef.entry) + 2].mark = b_vir_pattern

----------------------------------------------------------------------------
(* Properties of f_post_losc_eig_raw_lines called more than once. *)

\* line k of the output is a post-LOSC eigenvalue line: it starts with
\* 'is=' and holds the eigenvalue columns
IsEigLine(k) == file[k].lead = 0 /\ file[k].mark = PostMark /\ file[k].vals # <<>>

\* the line after the run of eigenvalue lines that starts at line k
RECURSIVE RunEnd(_)
RunEnd(k) == IF k > Len(file) \/ ~IsEigLine(k) THEN k ELSE RunEnd(k + 1)

\* the first eigenvalue line at or after line k (Len(file) + 1: none)
RECURSIVE RunStart(_)
RunStart(k) == IF k > Len(file) \/ IsEigLine(k) THEN k ELSE RunStart(k + 1)

\* the first maximal run of eigenvalue lines at or after line k, stripped,
\* and the line after it
RunFrom(k) ==
    LET a == RunStart(k)
        b == RunEnd(a)
    IN  [lines |-> [j \in 1..(b - a) |-> Strip(file[a + j - 1])], next |-> b]

RunsDone == api = "f_post_losc_eig_raw_lines" /\ pc = "done"

FirstRun == RunFrom(LineAt(file, qm.entry))

\* C33: f_post_losc_eig_raw_lines returns exactly the first maximal run of
\* eigenvalue lines at or after the line it is called on, stripped and in
\* the order of the file, and fails when there is none; a second call on
\* the same file object returns the next run, and fails when there is none.
C33_RunByRun ==
    RunsDone =>
        /\ (qm.calls = 0 /\ out.st = "returned") =>
              out.val = Some(FirstRun.lines) /\ FirstRun.lines # <<>>
        /\ (qm.calls = 0 /\ out.st = "raised") => FirstRun.lines = <<>>
        /\ (qm.calls = 1 /\ out.st = "returned") =>
              /\ qm.prev = FirstRun.lines
              /\ out.val = Some(RunFrom(FirstRun.next).lines)
              /\ RunFrom(FirstRun.next).lines # <<>>
        /\ (qm.calls = 1 /\ out.st = "raised") =>
              /\ qm.prev = FirstRun.lines
              /\ RunFrom(FirstRun.next).lines = <<>>

----------------------------------------------------------------------------
(* Termination of the three readers of the Gaussian log. *)

\* the tests of the outer scan loops (`while line:`)
LoopHeads == {"get_orb_sym_ene_loop", "get_orb_sym_loop", "get_orb_ene_log_loop"}

\* an iteration of the outer loop has just ended: top.it is the cursor it
\* started with
IterationDone == pc \in LoopHeads /\ top.it >= 0

\* C34 as stated: every iteration of the outer scan loop leaves the cursor
\* strictly beyond the position where it started.
C34_StrictlyBeyond == IterationDone => pos > top.it

\* C34 amended: the three readers terminate on every log; the cursor never
\* ends an iteration before the position where the iteration started, and
\* it ends strictly beyond it unless the iteration read the end of the
\* file, which leaves the cursor in place and ends the loop.
C34_Terminates ==
    /\ [](IterationDone =>
            /\ pos >= top.it
            /\ Truthy(top.line) => pos > top.it)
    /\ <>(pc = "done")

\* a scan that rewound to an anchor line and to a boundary line, and ended
\* with an iteration that read the end of the file
C34_Witness ==
    /\ pc = "done"
    /\ api = "get_orb_sym_ene"
    /\ out.st = "returned"
    /\ Len(top.syms) = 2
    /\ top.it = pos
    /\ pos = FileSize(file)

----------------------------------------------------------------------------
(* The names and the blocks of an Input. *)

\* C35: at any time, after the Input is made from a file and after any of
\* insert, replace_line, delete_line and delete_block, the list of names
\* holds each name once and the names are exactly the keys of the blocks,
\* so that __str__ finds a block for every name and prints every block once.
C35_NamesAreKeys ==
    /\ \A i, j \in 1..Len(inp.names) : inp.names[i] = inp.names[j] => i = j
    /\ {inp.names[i] : i \in 1..Len(inp.names)} = DOMAIN inp.blocks

====
